---- MODULE Spec2Model ----
(***************************************************************************)
(* A model of the llvm-wrap crate: the owning wrappers Context, Module and *)
(* Builder (context.rs, module.rs, builder.rs), the copyable handles Value *)
(* and BasicBlock (val.rs, bb.rs), the iterators of iter.rs and the string *)
(* conversion of lib.rs.  The LLVM C API behind the wrappers is modelled   *)
(* by the operators named LLVM...: each is what the wrapper's call of that *)
(* routine does to the backend's objects.                                  *)
(*                                                                         *)
(* The crate is checked in four parts, each a specification over its own   *)
(* variables (the other variables keep their initial values):              *)
(*   SpecLife    creation, into_inner and drop of the owning wrappers      *)
(*   SpecBuild   the Builder cursor and the instructions it emits          *)
(*   SpecNames   the calls that take a name: declarations and lookups      *)
(*   SpecModule  declarations, iteration over them and file output         *)
(***************************************************************************)
EXTENDS Integers, Sequences, FiniteSets, TLC

\* ---------------------------------------------------------------- bounds
\* Wrappers (Context, Module, Builder) created in one run of SpecLife.
MaxWrappers == 4
\* Instructions created in one run of SpecBuild.
MaxInstrs == 2
\* Basic blocks appended in one run.
MaxBlocks == 2
\* Entities created by name in one run: functions, globals, blocks, modules
\* and named struct types together.
MaxEntities == 3
\* Names the module's symbol table made unique before renaming stops.
MaxUnique == 2
\* Backend target machines and data layouts created in one run, and the
\* TargetMachine / TargetData values (clones included) that hold them.
MaxMachines == 2
MaxOwners == 3
\* Threads that call Target::from_triple concurrently.
NumThreads == 2
\* Instructions in the module when a builder of several instructions is
\* still called.
MaxEmitted == 4

\* ------------------------------------------------------------- variables
VARIABLES
    wrappers,       \* SpecLife: every wrapper ever constructed, in order
    disposeCalls,   \* SpecLife: backend handle -> calls of its dispose routine
    returned,       \* SpecLife: <<wrapper, handle>> pairs given out by into_inner
    decls,          \* the module's functions and globals, in declaration order
    unique,         \* the module symbol table's counter for unique names
    modules,        \* identifiers of the modules created by name
    structs,        \* the context's named struct types
    iter,           \* the Functions iterator in use: [on, pointer]
    iterHist,       \* history of that iterator: [yielded, list, dirty, ended]
    bbs,            \* every basic block appended, in order: [fn, base, suffix, instrs]
    cursor,         \* the Builder's insertion point: [bb, before]
    nextInstr,      \* instructions created so far (the last one's id)
    loose,          \* instructions created while the builder had no block
    crashed,        \* the process died inside the backend
    call,           \* the last API call: what was asked and how it ended
    pos,            \* history: the last positioning call and its block
    snap,           \* history: every block's instructions at that call
    emitted,        \* history: ids of the instructions inserted since
    uninitialized,  \* target.rs: the static flag UNINITIALIZED
    registry,       \* runs of the backend's three target initializers
    threads,        \* SpecInit: where each thread is inside from_triple
    reply,          \* the backend's answer in the last target call
    machines,       \* backend target machines and data layouts: [kind, disposed]
    owners,         \* TargetMachine / TargetData values: [kind, ptr, scope]
    bodies,         \* SpecTypes: named struct type -> its body
    origin          \* SpecScope: <<block, context>>: the Context a BasicBlock was made in

lifeVars == <<wrappers, disposeCalls, returned>>
backVars == <<decls, unique, modules, structs, bbs, cursor, nextInstr, loose,
              crashed>>
histVars == <<pos, snap, emitted>>
iterVars == <<iter, iterHist>>
targetVars == <<uninitialized, registry, threads, reply, machines, owners>>
typeVars == <<bodies>>
extVars == <<targetVars, typeVars, origin>>
vars == <<wrappers, disposeCalls, returned, decls, unique, modules, structs,
          bbs, cursor, nextInstr, loose, crashed, call, pos, snap, emitted,
          iter, iterHist, extVars>>

\* The last API call.  outcome: "ok" (returned), "err" (returned Err),
\* "panic" (a Rust panic before or between backend calls), "crash" (the
\* process died inside the backend).  backendCalls counts the backend
\* routines the call reached; io is what the backend answered when the call
\* was a write.
Call(op, arg, outcome, ret, n, msg) ==
    [op |-> op, arg |-> arg, outcome |-> outcome, ret |-> ret,
     backendCalls |-> n, msg |-> msg,
     io |-> [rc |-> 0, diag |-> "", file |-> "absent"]]
NoIo == Call("none", <<>>, "ok", <<>>, 0, "").io

\* Option<LLVM...Ref>: None, or Some(h) written h (a handle is a positive number).
None == 0

\* =========================================================================
\* Owning wrappers: Context, Module, Builder
\* =========================================================================

\* A wrapper value.  inner is the Option field (context / module / builder);
\* ctx is the Context a Module<'c> or Builder<'c> borrows (0 for a Context);
\* scope tells whether the value is still owned by the program.  made and
\* tookInner are history: the handle the constructor obtained and whether the
\* value was consumed by into_inner.
Wrapper(kind, h, ctx) ==
    [kind |-> kind, inner |-> h, ctx |-> ctx, scope |-> "live",
     made |-> h, tookInner |-> FALSE]

\* LLVMContextCreate / LLVMModuleCreateWithNameInContext /
\* LLVMCreateBuilderInContext: every call returns an object that did not
\* exist before; the k-th object created has handle k.
FreshHandle == Len(wrappers) + 1

Live(w) == w \in 1..Len(wrappers) /\ wrappers[w].scope = "live"

\* A Module<'c> or Builder<'c> holds &'c Context: while one is live the
\* Context it borrows can be neither dropped nor moved into into_inner.
Borrowed(c) == \E w \in 1..Len(wrappers) : Live(w) /\ wrappers[w].ctx = c

\* The backend dispose routines: one more call for handle h.
LLVMContextDispose(h, calls) == [calls EXCEPT ![h] = @ + 1]
LLVMDisposeModule(h, calls) == [calls EXCEPT ![h] = @ + 1]
LLVMDisposeBuilder(h, calls) == [calls EXCEPT ![h] = @ + 1]

\* impl Drop: "if let Some(h) = self.inner { dispose(h) }".
Context_drop(inner, calls) ==
    IF inner # None THEN LLVMContextDispose(inner, calls) ELSE calls

Module_drop_leak(inner, calls) == calls

Module_drop(inner, calls) ==
    IF inner # None THEN LLVMDisposeModule(inner, calls) ELSE calls

Builder_drop(inner, calls) ==
    IF inner # None THEN LLVMDisposeBuilder(inner, calls) ELSE calls

DropOf(kind, inner, calls) ==
    CASE kind = "Context" -> Context_drop(inner, calls)
      [] kind = "Module" -> Module_drop(inner, calls)
      [] kind = "Builder" -> Builder_drop(inner, calls)
      [] OTHER -> calls    \* Type and BasicBlock have no Drop impl

\* Option::take().unwrap(): the value returned and what is left in the field.
Context_into_inner(inner) == [ret |-> inner, left |-> None]

Module_into_inner(inner) == [ret |-> inner, left |-> None]

Builder_into_inner_keep(inner) == [ret |-> inner, left |-> inner]

Builder_into_inner(inner) == [ret |-> inner, left |-> None]

IntoInnerOf(kind, inner) ==
    CASE kind = "Context" -> Context_into_inner(inner)
      [] kind = "Module" -> Module_into_inner(inner)
      [] kind = "Builder" -> Builder_into_inner(inner)

\* Context::new()
ContextNew ==
    /\ Len(wrappers) < MaxWrappers
    /\ wrappers' = Append(wrappers, Wrapper("Context", FreshHandle, 0))
    /\ UNCHANGED <<disposeCalls, returned, backVars, histVars, iterVars, call, extVars>>

\* Context::create_module(&'c self, name): self.context.unwrap() is Some for
\* every live Context.
CreateModule(c) ==
    /\ Len(wrappers) < MaxWrappers
    /\ Live(c) /\ wrappers[c].kind = "Context" /\ wrappers[c].inner # None
    /\ wrappers' = Append(wrappers, Wrapper("Module", FreshHandle, c))
    /\ UNCHANGED <<disposeCalls, returned, backVars, histVars, iterVars, call, extVars>>

\* Context::create_builder(&'c self)
CreateBuilder(c) ==
    /\ Len(wrappers) < MaxWrappers
    /\ Live(c) /\ wrappers[c].kind = "Context" /\ wrappers[c].inner # None
    /\ wrappers' = Append(wrappers, Wrapper("Builder", FreshHandle, c))
    /\ UNCHANGED <<disposeCalls, returned, backVars, histVars, iterVars, call, extVars>>

\* The wrapper leaves scope: its Drop impl runs, once.
DropWrapper(w) ==
    /\ Live(w) /\ ~Borrowed(w)
    /\ disposeCalls' = DropOf(wrappers[w].kind, wrappers[w].inner, disposeCalls)
    /\ wrappers' = [wrappers EXCEPT ![w].scope = "gone"]
    /\ UNCHANGED <<returned, backVars, histVars, iterVars, call, extVars>>

\* into_inner(mut self): take() the handle, return it, and drop self at the
\* end of the function with whatever take() left in the field.
IntoInner(w) ==
    /\ Live(w) /\ ~Borrowed(w)
    /\ LET t == IntoInnerOf(wrappers[w].kind, wrappers[w].inner) IN
        /\ returned' = returned \cup {<<w, t.ret>>}
        /\ disposeCalls' = DropOf(wrappers[w].kind, t.left, disposeCalls)
        /\ wrappers' = [wrappers EXCEPT ![w].inner = t.left,
                                        ![w].scope = "gone",
                                        ![w].tookInner = TRUE]
    /\ UNCHANGED <<backVars, histVars, iterVars, call, extVars>>

\* =========================================================================
\* Strings (lib.rs, c_api)
\* =========================================================================

\* A Rust string is a sequence of characters; "NUL" is the character U+0000.
NUL == "NUL"
\* The names the calls are given: two without a NUL, one with a NUL in the
\* middle (its bytes up to the NUL are the first name) and one that starts
\* with a NUL.
Names == {<<"a">>, <<"a", "b">>, <<"a", NUL, "b">>, <<NUL>>}
ValidNames == {s \in Names : \A i \in 1..Len(s) : s[i] # NUL}

HasNul(s) == \E i \in 1..Len(s) : s[i] = NUL

\* CString::new(s): an error when s holds a NUL, else the bytes of s followed
\* by the terminating NUL.
CString_new(s) ==
    IF HasNul(s) THEN [ok |-> FALSE, bytes |-> <<>>]
                 ELSE [ok |-> TRUE, bytes |-> Append(s, NUL)]

into_c_unchecked(s) == [ok |-> TRUE, bytes |-> Append(s, NUL)]

\* c_api::into_c: CString::new(string).expect("invalid name"); ok = FALSE is
\* the panic of expect.
into_c(s) == CString_new(s)

\* What the backend reads through a `const char *`: the bytes before the
\* first NUL.
CStr(bytes) ==
    LET stop == CHOOSE i \in 1..Len(bytes) :
                    bytes[i] = NUL /\ \A j \in 1..(i - 1) : bytes[j] # NUL
    IN SubSeq(bytes, 1, stop - 1)

\* =========================================================================
\* Values, instructions and the backend behind the Builder
\* =========================================================================

\* A Value wraps an LLVMValueRef: a function parameter, an instruction, or
\* the null pointer.  Unit is the result of a method that returns ().
Null == <<"null", 0>>
Unit == <<"unit", 0>>
Param(i) == <<"param", i>>
Inst(id) == <<"inst", id>>
DeclV(d) == <<"decl", d>>
Block(b) == <<"block", b>>

NoCall == Call("none", <<>>, "ok", Unit, 0, "")

NoCursor == [bb |-> 0, before |-> 0]
NoPos == [how |-> "none", bb |-> 0, at |-> 0]
NoIter == [on |-> FALSE, pointer |-> Null]

\* The backend objects a Builder call reads and writes, and the number of
\* backend routines reached so far in the current API call.
BState ==
    [decls |-> decls, unique |-> unique, modules |-> modules,
     structs |-> structs, bbs |-> bbs, cursor |-> cursor, next |-> nextInstr,
     loose |-> loose, crashed |-> crashed, calls |-> 0]

\* One way an API call can end: the backend state it leaves, how it ended
\* and what it returned.
Ok(S, ret) == [st |-> S, outcome |-> "ok", ret |-> ret, msg |-> ""]
Panic(S, msg) == [st |-> S, outcome |-> "panic", ret |-> Null, msg |-> msg]
Crash(S) ==
    [st |-> [S EXCEPT !.crashed = TRUE], outcome |-> "crash", ret |-> Null,
     msg |-> ""]

\* An instruction as the LLVMBuild* routines create it: every builder
\* method passes the empty name, so it is unnamed (base <<>>).  As for a
\* declaration, suffix is the number the symbol table appended to the name.
Instr(id, op, ty, args) ==
    [id |-> id, op |-> op, ty |-> ty, args |-> args, incoming |-> <<>>,
     cases |-> <<>>, base |-> <<>>, suffix |-> 0]

\* Every instruction the backend holds, in a block or not.
AllInstrs(S) ==
    S.loose \cup UNION {{S.bbs[b].instrs[k] : k \in 1..Len(S.bbs[b].instrs)} :
                            b \in 1..Len(S.bbs)}

\* A function or global deleted by LLVMDeleteFunction / LLVMDeleteGlobal
\* stays in `decls` as this record, so that the handles given out before
\* keep their meaning; it is in no list and no symbol table of the module.
\* A deleted block is a block of no function.
DeletedDecl == [kind |-> "deleted", base |-> <<>>, suffix |-> 0, unique |-> 0]

\* The entity behind the handle v has been deleted: its memory is freed.
Freed(S, v) ==
    CASE v[1] = "decl" -> S.decls[v[2]].kind = "deleted"
      [] v[1] = "block" -> S.bbs[v[2]].fn = 0
      [] OTHER -> FALSE

\* A backend routine handed a freed entity reads freed memory: it returns
\* something, or the process dies.
UseAfterFree(S) ==
    {Ok([S EXCEPT !.calls = @ + 1], Null), Crash([S EXCEPT !.calls = @ + 1])}

\* LLVMTypeOf: the functions of SpecBuild are declared `i32 (i32, i64)`.
LLVMTypeOf(S, v) ==
    CASE v[1] = "param" -> (IF v[2] = 0 THEN "i32" ELSE "i64")
      [] v[1] = "inst" ->
            (CHOOSE i \in AllInstrs(S) : i.id = v[2]).ty
      [] v[1] \in {"const", "undef", "agg"} -> v[2]
      [] OTHER -> "void"

\* =========================================================================
\* The backend behind Context, Module and Value
\* =========================================================================

\* A function or global of the module.  Its name is `base`, followed by
\* "." and the number `suffix` when the backend made it unique (suffix 0: the
\* name as given).  unique counts the names made unique in the function's
\* own symbol table (its blocks).
Decl(kind, base, suffix) ==
    [kind |-> kind, base |-> base, suffix |-> suffix, unique |-> 0]
BasicBlockRec(fn, base, suffix) ==
    [fn |-> fn, base |-> base, suffix |-> suffix, instrs |-> <<>>]

\* The module's symbol table holds functions and globals alike; an empty
\* name is in no table.
Taken(ds, base) ==
    base # <<>> /\ \E d \in 1..Len(ds) : ds[d].base = base /\ ds[d].suffix = 0

\* The entry of the symbol table with exactly this name, or 0.
Lookup(ds, cname) ==
    IF Taken(ds, cname)
    THEN CHOOSE d \in 1..Len(ds) : ds[d].base = cname /\ ds[d].suffix = 0
    ELSE 0

AddDecl_dup(S, kind, cname) ==
    Ok([S EXCEPT !.decls = Append(@, Decl(kind, cname, 0)), !.calls = @ + 1],
       DeclV(Len(S.decls) + 1))

\* A new global value of the module: appended to the module's list; when the
\* name is taken the symbol table appends "." and its next number.
AddDecl(S, kind, cname) ==
    LET clash == Taken(S.decls, cname)
        u == IF clash THEN S.unique + 1 ELSE S.unique
        d == Decl(kind, cname, IF clash THEN u ELSE 0)
    IN Ok([S EXCEPT !.decls = Append(@, d), !.unique = u, !.calls = @ + 1],
          DeclV(Len(S.decls) + 1))

LLVMAddFunction(S, cname) == AddDecl(S, "function", cname)
LLVMAddGlobal(S, cname) == AddDecl(S, "global", cname)

\* LLVMGetNamedFunction / LLVMGetNamedGlobal: the value of that name when it
\* is of the kind asked for, else null.
GetNamed(S, kind, cname) ==
    LET d == Lookup(S.decls, cname)
    IN Ok([S EXCEPT !.calls = @ + 1],
          IF d # 0 /\ S.decls[d].kind = kind THEN DeclV(d) ELSE Null)

LLVMGetNamedFunction(S, cname) == GetNamed(S, "function", cname)
LLVMGetNamedGlobal(S, cname) == GetNamed(S, "global", cname)

\* LLVMSetValueName on a function or global: nothing when the name is the
\* one it has; else the old name leaves the table and the new one enters it,
\* made unique when taken.
SetDeclName(S, v, cname) ==
    LET d == v[2]
        same == S.decls[d].base = cname /\ S.decls[d].suffix = 0
        clash == Taken(S.decls, cname)
        u == IF clash /\ ~same THEN S.unique + 1 ELSE S.unique
    IN IF same THEN [S EXCEPT !.calls = @ + 1]
       ELSE [S EXCEPT !.decls[d].base = cname,
                      !.decls[d].suffix = IF clash THEN u ELSE 0,
                      !.unique = u, !.calls = @ + 1]

\* LLVMSetValueName on an instruction: the name enters the symbol table of
\* the function the instruction is in, which holds the names of the
\* function's blocks and instructions and appends its next number to a name
\* already taken.  An instruction in no block has no table.
SetInstrName(S, v, cname) ==
    LET Ren(i, sfx) == IF i.id = v[2] THEN [i EXCEPT !.base = cname, !.suffix = sfx]
                       ELSE i
        home == {b \in 1..Len(S.bbs) :
                    \E k \in 1..Len(S.bbs[b].instrs) : S.bbs[b].instrs[k].id = v[2]}
    IN IF home = {}
       THEN [S EXCEPT !.loose = {Ren(i, 0) : i \in @}, !.calls = @ + 1]
       ELSE LET b == CHOOSE x \in home : TRUE
                f == S.bbs[b].fn
                mine == {x \in 1..Len(S.bbs) : S.bbs[x].fn = f}
                clash ==
                    /\ cname # <<>>
                    /\ \/ \E x \in mine : S.bbs[x].base = cname /\ S.bbs[x].suffix = 0
                       \/ \E x \in mine : \E k \in 1..Len(S.bbs[x].instrs) :
                              /\ S.bbs[x].instrs[k].id # v[2]
                              /\ S.bbs[x].instrs[k].base = cname
                              /\ S.bbs[x].instrs[k].suffix = 0
                u == IF clash THEN S.decls[f].unique + 1 ELSE S.decls[f].unique
            IN [S EXCEPT
                  !.bbs[b].instrs =
                      [k \in 1..Len(@) |-> Ren(@[k], IF clash THEN u ELSE 0)],
                  !.decls[f].unique = u,
                  !.calls = @ + 1]

\* LLVMSetValueName: a constant has no name and keeps none.
LLVMSetValueName(S, v, cname) ==
    CASE v[1] = "decl" -> SetDeclName(S, v, cname)
      [] v[1] = "inst" -> SetInstrName(S, v, cname)
      [] OTHER -> [S EXCEPT !.calls = @ + 1]

\* The module's functions, in the order of its list.
FunctionsOf(ds) ==
    LET F[k \in 0..Len(ds)] ==
            IF k = 0 THEN <<>>
            ELSE IF ds[k].kind = "function" THEN Append(F[k - 1], DeclV(k))
                 ELSE F[k - 1]
    IN F[Len(ds)]

\* LLVMGetFirstFunction / LLVMGetNextFunction: null at the end of the list.
LLVMGetFirstFunction(ds) ==
    IF FunctionsOf(ds) = <<>> THEN Null ELSE FunctionsOf(ds)[1]

LLVMGetNextFunction(ds, v) ==
    LET fs == FunctionsOf(ds)
        k == CHOOSE k \in 1..Len(fs) : fs[k] = v
    IN IF k = Len(fs) THEN Null ELSE fs[k + 1]

\* LLVMModuleCreateWithNameInContext: a new module with that identifier.
LLVMModuleCreateWithNameInContext(S, cname) ==
    Ok([S EXCEPT !.modules = Append(@, cname), !.calls = @ + 1],
       <<"module", Len(S.modules) + 1>>)

\* LLVMStructCreateNamed: a new opaque struct type of the context; a taken
\* name is made unique by "." and a number.
LLVMStructCreateNamed(S, cname) ==
    LET clash == cname # <<>> /\ \E k \in 1..Len(S.structs) :
                     S.structs[k].base = cname /\ S.structs[k].suffix = 0
        n == Cardinality({k \in 1..Len(S.structs) : S.structs[k].suffix > 0})
    IN Ok([S EXCEPT !.structs = Append(@, [base |-> cname,
                                           suffix |-> IF clash THEN n + 1 ELSE 0]),
                    !.calls = @ + 1],
          <<"type", Len(S.structs) + 1>>)

\* LLVMAppendBasicBlockInContext: a new block at the end of function f; its
\* name is made unique in the function's symbol table by a number.
LLVMAppendBasicBlockInContext(S, f, cname) ==
    LET clash == cname # <<>> /\ \E b \in 1..Len(S.bbs) :
                     S.bbs[b].fn = f /\ S.bbs[b].base = cname /\ S.bbs[b].suffix = 0
        u == IF clash THEN S.decls[f].unique + 1 ELSE S.decls[f].unique
    IN Ok([S EXCEPT !.bbs = Append(@, BasicBlockRec(f, cname,
                                                    IF clash THEN u ELSE 0)),
                    !.decls[f].unique = u, !.calls = @ + 1],
          Block(Len(S.bbs) + 1))

\* What the backend's writers may report for one call.  LLVMPrintModuleToFile
\* returns nonzero and sets a message when it fails; LLVMWriteBitcodeToFile
\* returns -1 when it cannot open the file and has no message to give.
LLVMPrintModuleToFile ==
    {[rc |-> 0, diag |-> "", file |-> "complete"],
     [rc |-> 1, diag |-> "cannot open", file |-> "absent"],
     [rc |-> 1, diag |-> "write failed", file |-> "partial"]}

LLVMWriteBitcodeToFile ==
    {[rc |-> 0, diag |-> "", file |-> "complete"],
     [rc |-> -1, diag |-> "", file |-> "absent"]}

\* =========================================================================
\* Context, Module, Value (context.rs, module.rs, val.rs)
\* =========================================================================

\* Context::create_module
create_module(S, name) ==
    LET c == into_c(name)
    IN IF ~c.ok THEN {Panic(S, "invalid name")}
       ELSE {LLVMModuleCreateWithNameInContext(S, CStr(c.bytes))}

\* Context::create_named_struct
create_named_struct(S, name) ==
    LET c == into_c(name)
    IN IF ~c.ok THEN {Panic(S, "invalid name")}
       ELSE {LLVMStructCreateNamed(S, CStr(c.bytes))}

\* Module::add_function
add_function(S, name) ==
    LET c == into_c(name)
    IN IF ~c.ok THEN {Panic(S, "invalid name")}
       ELSE {LLVMAddFunction(S, CStr(c.bytes))}

\* Module::add_global
add_global(S, name) ==
    LET c == into_c(name)
    IN IF ~c.ok THEN {Panic(S, "invalid name")}
       ELSE {LLVMAddGlobal(S, CStr(c.bytes))}

get_function_any(S, name) ==
    LET c == into_c(name)
    IN IF ~c.ok THEN {Panic(S, "invalid name")}
       ELSE {Ok([S EXCEPT !.calls = @ + 1],
                LLVMGetFirstFunction(S.decls))}

\* Module::get_function: the Value wraps whatever the backend returned, the
\* null pointer included.
get_function(S, name) ==
    LET c == into_c(name)
    IN IF ~c.ok THEN {Panic(S, "invalid name")}
       ELSE {LLVMGetNamedFunction(S, CStr(c.bytes))}

\* Module::get_global
get_global(S, name) ==
    LET c == into_c(name)
    IN IF ~c.ok THEN {Panic(S, "invalid name")}
       ELSE {LLVMGetNamedGlobal(S, CStr(c.bytes))}

\* Value::name: sets the name and returns the value itself.  The handle is
\* passed on unchecked, a deleted value's too.
Value_name(S, v, name) ==
    LET c == into_c(name)
    IN IF ~c.ok THEN {Panic(S, "invalid name")}
       ELSE IF Freed(S, v) THEN UseAfterFree(S)
       ELSE {Ok(LLVMSetValueName(S, v, CStr(c.bytes)), v)}

\* Value::append_basic_block: CString::new(name).expect("invalid module name")
append_basic_block(S, f, name) ==
    LET c == CString_new(name)
    IN IF ~c.ok THEN {Panic(S, "invalid module name")}
       ELSE IF Freed(S, DeclV(f)) THEN UseAfterFree(S)
       ELSE {LLVMAppendBasicBlockInContext(S, f, CStr(c.bytes))}

Functions_next_skip(ds, it) ==
    IF it.pointer = Null THEN [ret |-> Null, some |-> FALSE, it |-> it]
    ELSE LET nx == LLVMGetNextFunction(ds, it.pointer)
         IN [ret |-> nx, some |-> TRUE, it |-> [it EXCEPT !.pointer = nx]]

Functions_next_stay(ds, it) ==
    IF it.pointer = Null THEN [ret |-> Null, some |-> FALSE, it |-> it]
    ELSE [ret |-> it.pointer, some |-> TRUE, it |-> it]

\* Module::functions: the iterator starts at the first function.
functions(ds) == [on |-> TRUE, pointer |-> LLVMGetFirstFunction(ds)]

\* Iterator::next for Functions: None when the pointer is null; else the
\* pointer is advanced to the backend's successor and the old one returned.
Functions_next(ds, it) ==
    IF it.pointer = Null THEN [ret |-> Null, some |-> FALSE, it |-> it]
    ELSE [ret |-> it.pointer, some |-> TRUE,
          it |-> [it EXCEPT !.pointer = LLVMGetNextFunction(ds, it.pointer)]]

\* A path as given to the writers: whether it is UTF-8, and its characters.
Paths ==
    {[utf8 |-> TRUE, s |-> <<"a">>], [utf8 |-> TRUE, s |-> <<"a", NUL>>],
     [utf8 |-> FALSE, s |-> <<"a">>]}

write_llvm_ir_silent(path, backend) ==
    IF ~path.utf8
    THEN [outcome |-> "panic", reached |-> FALSE,
          msg |-> "path could not be converted to string"]
    ELSE IF ~into_c(path.s).ok
    THEN [outcome |-> "panic", reached |-> FALSE, msg |-> "invalid name"]
    ELSE [outcome |-> "ok", reached |-> TRUE, msg |-> ""]

\* Module::write_llvm_ir: path.to_str().expect(..), into_c(..), then the
\* backend; a nonzero result panics with a fixed message.  The message the
\* backend stored is not read.
write_llvm_ir(path, backend) ==
    IF ~path.utf8
    THEN [outcome |-> "panic", reached |-> FALSE,
          msg |-> "path could not be converted to string"]
    ELSE IF ~into_c(path.s).ok
    THEN [outcome |-> "panic", reached |-> FALSE, msg |-> "invalid name"]
    ELSE IF backend.rc # 0
    THEN [outcome |-> "panic", reached |-> TRUE,
          msg |-> "failed to write LLVM IR to file"]
    ELSE [outcome |-> "ok", reached |-> TRUE, msg |-> ""]

\* Module::write_bitcode
write_bitcode(path, backend) ==
    IF ~path.utf8
    THEN [outcome |-> "panic", reached |-> FALSE,
          msg |-> "path could not be converted to string"]
    ELSE IF ~into_c(path.s).ok
    THEN [outcome |-> "panic", reached |-> FALSE, msg |-> "invalid name"]
    ELSE IF backend.rc # 0
    THEN [outcome |-> "panic", reached |-> TRUE,
          msg |-> "failed to write bitcode to file"]
    ELSE [outcome |-> "ok", reached |-> TRUE, msg |-> ""]

\* =========================================================================
\* The backend behind the Builder
\* =========================================================================

\* The list of a block with `ins` put in front of the instruction `before`,
\* or at the end when `before` is 0 (the end of the block).
InsertBefore(instrs, before, ins) ==
    IF before = 0 \/ ~\E k \in 1..Len(instrs) : instrs[k].id = before
    THEN Append(instrs, ins)
    ELSE LET k == CHOOSE k \in 1..Len(instrs) : instrs[k].id = before
         IN SubSeq(instrs, 1, k - 1) \o <<ins>> \o SubSeq(instrs, k, Len(instrs))

\* The insertion every LLVMBuild* routine ends with.  With an insertion point
\* the new instruction goes in front of it.  With none (cursor.bb = 0) the
\* wrapper has checked nothing and the routine runs on a null block: it
\* either leaves the instruction outside every block or dereferences null.
LLVMInsert(S, op, ty, args) ==
    LET ins == Instr(S.next + 1, op, ty, args)
        T == [S EXCEPT !.next = @ + 1, !.calls = @ + 1]
    IN IF S.cursor.bb = 0
       THEN {Ok([T EXCEPT !.loose = @ \cup {ins}], Inst(ins.id)),
             Crash([S EXCEPT !.calls = @ + 1])}
       ELSE {Ok([T EXCEPT !.bbs[S.cursor.bb].instrs =
                              InsertBefore(@, S.cursor.before, ins)],
                Inst(ins.id))}

LLVMBuildAlloca(S, ty) == LLVMInsert(S, "alloca", "ptr", <<ty>>)
LLVMBuildAdd(S, a, b) == LLVMInsert(S, "add", LLVMTypeOf(S, a), <<a, b>>)
LLVMBuildRet(S, val) == LLVMInsert(S, "ret", "void", <<val>>)
LLVMBuildSRem(S, a, b) == LLVMInsert(S, "srem", LLVMTypeOf(S, a), <<a, b>>)
LLVMBuildPhi(S, ty) == LLVMInsert(S, "phi", ty, <<>>)
LLVMBuildStore(S, val, ptr) == LLVMInsert(S, "store", "void", <<val, ptr>>)
LLVMBuildGEP(S, ptr, indices) ==
    LLVMInsert(S, "getelementptr", "ptr", <<ptr>> \o indices)

\* The type a pointer value points to: the type its allocation was given.
Pointee(S, ptr) ==
    IF ptr[1] = "inst" /\ \E i \in AllInstrs(S) : i.id = ptr[2]
    THEN (CHOOSE i \in AllInstrs(S) : i.id = ptr[2]).args[1]
    ELSE "void"

LLVMBuildLoad(S, ptr) == LLVMInsert(S, "load", Pointee(S, ptr), <<ptr>>)

\* LLVMBuildMalloc / LLVMBuildFree: the call of the C library's malloc /
\* free (with the casts around it, written here as one instruction); the
\* routine is declared in the module when it is not yet.
Declared(S, cname) ==
    IF Taken(S.decls, cname) THEN S
    ELSE [S EXCEPT !.decls = Append(@, Decl("function", cname, 0))]
LLVMBuildMalloc(S, ty) ==
    {IF r.outcome = "ok" THEN [r EXCEPT !.st = Declared(@, <<"malloc">>)] ELSE r :
        r \in LLVMInsert(S, "malloc", "ptr", <<ty>>)}
LLVMBuildFree(S, ptr) ==
    {IF r.outcome = "ok" THEN [r EXCEPT !.st = Declared(@, <<"free">>)] ELSE r :
        r \in LLVMInsert(S, "free", "void", <<ptr>>)}

\* LLVMAddIncoming(phi, values, blocks, count): the first `count` pairs are
\* appended to the phi's incoming list, wherever the phi is.
LLVMAddIncoming(S, phi, values, blocks, count) ==
    LET add == [k \in 1..count |-> <<values[k], blocks[k]>>]
        Upd(i) == IF i.id = phi[2] THEN [i EXCEPT !.incoming = @ \o add] ELSE i
        UpdAll(instrs) == [k \in 1..Len(instrs) |-> Upd(instrs[k])]
    IN [S EXCEPT
          !.calls = @ + 1,
          !.loose = {Upd(i) : i \in @},
          !.bbs = [b \in 1..Len(S.bbs) |->
                     [S.bbs[b] EXCEPT !.instrs = UpdAll(@)]]]

\* LLVMBuildSwitch(builder, v, else, numCases): a switch on v with the
\* default target and room for numCases cases, none added yet.
LLVMBuildSwitch(S, v, default, numCases) ==
    LLVMInsert(S, "switch", "void", <<v, default, numCases>>)

\* LLVMAddCase(switch, onVal, dest): the pair is appended to the cases of the
\* switch.  onVal is taken for an integer constant unchecked: with another
\* value the routine works on an object of the wrong class.
LLVMAddCase(S, switch, onVal, dest) ==
    LET Upd(i) == IF i.id = switch[2] THEN [i EXCEPT !.cases = Append(@, <<onVal, dest>>)]
                  ELSE i
        T == [S EXCEPT
                !.calls = @ + 1,
                !.loose = {Upd(i) : i \in @},
                !.bbs = [b \in 1..Len(S.bbs) |->
                           [S.bbs[b] EXCEPT
                              !.instrs = [k \in 1..Len(@) |-> Upd(@[k])]]]]
    IN IF onVal[1] = "const" THEN {Ok(T, Unit)}
       ELSE {Ok(T, Unit), Crash([S EXCEPT !.calls = @ + 1])}

\* LLVMPositionBuilderAtEnd(builder, bb)
LLVMPositionBuilderAtEnd(S, bb) ==
    [S EXCEPT !.cursor = [bb |-> bb, before |-> 0], !.calls = @ + 1]

\* LLVMPositionBuilder(builder, bb, instr): in front of instr, or at the end
\* of bb when instr is null.
LLVMPositionBuilder(S, bb, before) ==
    [S EXCEPT !.cursor = [bb |-> bb, before |-> before], !.calls = @ + 1]

\* =========================================================================
\* Builder (builder.rs)
\* =========================================================================

\* Builder::build_alloca
build_alloca(S, ty) == LLVMBuildAlloca(S, ty)

\* Builder::build_int_add
build_int_add(S, a, b) == LLVMBuildAdd(S, a, b)

\* Builder::build_int_urem: the backend routine called is LLVMBuildSRem.
build_int_urem(S, a, b) == LLVMBuildSRem(S, a, b)

\* Builder::build_int_srem
build_int_srem(S, a, b) == LLVMBuildSRem(S, a, b)

\* Builder::build_ret
build_ret(S, val) == LLVMBuildRet(S, val)

\* Builder::build_gep
build_gep(S, ptr, indices) == LLVMBuildGEP(S, ptr, indices)

\* Builder::build_inbounds_gep: the backend routine called is LLVMBuildGEP.
build_inbounds_gep(S, ptr, indices) == LLVMBuildGEP(S, ptr, indices)

\* `a; b`: the statement F runs on what each way of a that returned left;
\* a panic or a crash ends the call.
Then(results, F(_)) ==
    UNION {IF r.outcome = "ok" THEN F(r) ELSE {r} : r \in results}

\* Builder::build_malloc
build_malloc(S, ty) == LLVMBuildMalloc(S, ty)

\* Builder::build_store: returns ().
build_store(S, val, ptr) ==
    {IF r.outcome = "ok" THEN Ok(r.st, Unit) ELSE r :
        r \in LLVMBuildStore(S, val, ptr)}

\* Builder::build_load
build_load(S, ptr) == LLVMBuildLoad(S, ptr)

\* Builder::build_free
build_free(S, ptr) == LLVMBuildFree(S, ptr)

build_alloca_store_last(S, val) ==
    Then(build_alloca(S, LLVMTypeOf(S, val)),
         LAMBDA p : build_store(p.st, val, p.ret))

\* Builder::build_alloca_store: let ptr = build_alloca(val.ty());
\* build_store(val, ptr); ptr
build_alloca_store(S, val) ==
    Then(build_alloca(S, LLVMTypeOf(S, val)),
         LAMBDA p : Then(build_store(p.st, val, p.ret),
                         LAMBDA q : {Ok(q.st, p.ret)}))

\* Builder::build_malloc_store
build_malloc_store(S, val) ==
    Then(build_malloc(S, LLVMTypeOf(S, val)),
         LAMBDA p : Then(build_store(p.st, val, p.ret),
                         LAMBDA q : {Ok(q.st, p.ret)}))

build_load_free_swapped(S, ptr) ==
    Then(build_free(S, ptr),
         LAMBDA f : build_load(f.st, ptr))

\* Builder::build_load_free: let val = build_load(ptr); build_free(ptr); val
build_load_free(S, ptr) ==
    Then(build_load(S, ptr),
         LAMBDA v : Then(build_free(v.st, ptr),
                         LAMBDA f : {Ok(f.st, v.ret)}))

\* for (val, bb) in cases { LLVMAddCase(switch, val, bb) }, from the i-th on
RECURSIVE AddCases(_, _, _, _)
AddCases(S, switch, cases, i) ==
    IF i > Len(cases) THEN {Ok(S, Unit)}
    ELSE Then(LLVMAddCase(S, switch, cases[i][1], cases[i][2]),
              LAMBDA r : AddCases(r.st, switch, cases, i + 1))

build_switch_reversed(S, v, cases, default) ==
    Then(LLVMBuildSwitch(S, v, default, Len(cases)),
         LAMBDA r : AddCases(r.st, r.ret,
                             [k \in 1..Len(cases) |-> cases[Len(cases) + 1 - k]], 1))

\* Builder::build_switch
build_switch(S, v, cases, default) ==
    Then(LLVMBuildSwitch(S, v, default, Len(cases)),
         LAMBDA r : AddCases(r.st, r.ret, cases, 1))

build_phi_unchecked(S, incoming) ==
    LET first == LLVMBuildPhi(S, IF incoming = <<>> THEN "void"
                                 ELSE LLVMTypeOf(S, incoming[1][1]))
    IN {IF r.outcome # "ok" THEN r
        ELSE Ok(LLVMAddIncoming(r.st, r.ret,
                                [k \in 1..Len(incoming) |-> incoming[k][1]],
                                [k \in 1..Len(incoming) |-> incoming[k][2]],
                                Len(incoming)), r.ret) : r \in first}

build_phi_last_type(S, incoming) ==
    IF incoming = <<>>
    THEN {Panic(S, "phi node must have an incoming block list")}
    ELSE LET first == LLVMBuildPhi(S, LLVMTypeOf(S, incoming[Len(incoming)][1]))
         IN {IF r.outcome # "ok" THEN r
             ELSE Ok(LLVMAddIncoming(r.st, r.ret,
                                     [k \in 1..Len(incoming) |-> incoming[k][1]],
                                     [k \in 1..Len(incoming) |-> incoming[k][2]],
                                     Len(incoming)), r.ret) : r \in first}

\* Builder::build_phi: panics on an empty list before anything is built;
\* else LLVMBuildPhi with the type of the first value, then one
\* LLVMAddIncoming with the values and the blocks in the order given.
build_phi(S, incoming) ==
    IF incoming = <<>>
    THEN {Panic(S, "phi node must have an incoming block list")}
    ELSE LET first == LLVMBuildPhi(S, LLVMTypeOf(S, incoming[1][1]))
         IN {IF r.outcome # "ok" THEN r
             ELSE Ok(LLVMAddIncoming(r.st, r.ret,
                                     [k \in 1..Len(incoming) |-> incoming[k][1]],
                                     [k \in 1..Len(incoming) |-> incoming[k][2]],
                                     Len(incoming)), r.ret) : r \in first}

\* The blocks that hold the instruction v.
Home(S, v) ==
    {b \in 1..Len(S.bbs) :
        \E k \in 1..Len(S.bbs[b].instrs) : S.bbs[b].instrs[k].id = v[2]}

\* LLVMPositionBuilderBefore(builder, instr): in front of instr, in the
\* block that holds it.
LLVMPositionBuilderBefore(S, v) ==
    [S EXCEPT !.cursor = [bb |-> CHOOSE b \in Home(S, v) : TRUE, before |-> v[2]],
              !.calls = @ + 1]

position_before_end(S, v) ==
    IF v[1] = "inst" /\ Home(S, v) # {}
    THEN {Ok(LLVMPositionBuilderAtEnd(S, CHOOSE b \in Home(S, v) : TRUE), Unit)}
    ELSE {Ok([S EXCEPT !.cursor = NoCursor, !.calls = @ + 1], Unit),
          Crash([S EXCEPT !.calls = @ + 1])}

\* Builder::position_before: the value is handed on unchecked.  The routine
\* takes it for an instruction and reads its parent block: with a value that
\* is no instruction of a block the builder ends at no block or the process
\* dies.
position_before(S, v) ==
    IF v[1] = "inst" /\ Home(S, v) # {}
    THEN {Ok(LLVMPositionBuilderBefore(S, v), Unit)}
    ELSE {Ok([S EXCEPT !.cursor = NoCursor, !.calls = @ + 1], Unit),
          Crash([S EXCEPT !.calls = @ + 1])}

position_at_end_front(S, bb) ==
    {Ok(LLVMPositionBuilder(S, bb, IF S.bbs[bb].instrs = <<>> THEN 0
                                   ELSE S.bbs[bb].instrs[1].id), Unit)}

position_at_end_once(S, bb) ==
    {Ok(IF S.cursor.bb = 0 THEN LLVMPositionBuilderAtEnd(S, bb)
        ELSE [S EXCEPT !.calls = @ + 1], Unit)}

\* Builder::position_at_end
position_at_end(S, bb) == {Ok(LLVMPositionBuilderAtEnd(S, bb), Unit)}

\* =========================================================================
\* Actions: one per API call
\* =========================================================================

\* The call ended as r: the backend is as r left it.
Commit(op, arg, r) ==
    /\ decls' = r.st.decls
    /\ unique' = r.st.unique
    /\ modules' = r.st.modules
    /\ structs' = r.st.structs
    /\ bbs' = r.st.bbs
    /\ cursor' = r.st.cursor
    /\ nextInstr' = r.st.next
    /\ loose' = r.st.loose
    /\ crashed' = r.st.crashed
    /\ call' = Call(op, arg, r.outcome, r.ret, r.st.calls, r.msg)

\* The ids, in the order of creation, of the instructions that T holds in
\* blocks and the current state does not.
NewIds(T) ==
    LET new == {i.id : i \in AllInstrs(T) \ T.loose} \ 1..nextInstr
    IN [k \in 1..Cardinality(new) |->
           CHOOSE x \in new : Cardinality({y \in new : y < x}) = k - 1]

\* The values the calls are given: the two parameters, the result of the
\* last instruction, and (value, block) pairs for a phi.
Params == {Param(0), Param(1)}
LastValue == IF nextInstr > 0 THEN Inst(nextInstr) ELSE Param(0)
\* The incoming lists a build_phi is given: none, one pair, and two pairs
\* that differ in value, type and block when there are two blocks.
PhiLists ==
    {<<>>} \cup
    (IF bbs = <<>> THEN {}
     ELSE {<<<<Param(1), Block(Len(bbs))>>>>,
           <<<<Param(0), Block(1)>>, <<Param(1), Block(Len(bbs))>>>>})

\* The entities created by name so far.
Created == Len(decls) + Len(modules) + Len(structs) + Len(bbs)

FunctionDecls == {d \in 1..Len(decls) : decls[d].kind = "function"}

\* A build_* call.
Emit(op, arg, results) ==
    /\ ~crashed
    /\ nextInstr < MaxInstrs
    /\ \E r \in results :
        /\ Commit(op, arg, r)
        /\ emitted' = emitted \o NewIds(r.st)
    /\ UNCHANGED <<pos, snap, lifeVars, iterVars, extVars>>

BuildAlloca == Emit("build_alloca", <<>>, build_alloca(BState, "i32"))

BuildIntAdd ==
    \E a \in Params :
        Emit("build_int_add", <<a, Param(1)>>, build_int_add(BState, a, Param(1)))

BuildIntURem ==
    \E a \in Params, b \in Params :
        Emit("build_int_urem", <<a, b>>, build_int_urem(BState, a, b))

BuildIntSRem ==
    \E a \in Params, b \in Params :
        Emit("build_int_srem", <<a, b>>, build_int_srem(BState, a, b))

BuildRet == Emit("build_ret", <<LastValue>>, build_ret(BState, LastValue))

\* A call of a builder that emits several instructions.
EmitMany(op, arg, results) ==
    /\ ~crashed
    /\ nextInstr < MaxEmitted
    /\ \E r \in results :
        /\ Commit(op, arg, r)
        /\ emitted' = emitted \o NewIds(r.st)
    /\ UNCHANGED <<pos, snap, lifeVars, iterVars, extVars>>

\* The pointers built so far: the results of the allocations.
Pointers ==
    {Inst(i.id) : i \in {j \in AllInstrs(BState) : j.op \in {"alloca", "malloc"}}}

BuildAllocaStore ==
    \E v \in Params :
        EmitMany("build_alloca_store", <<v>>, build_alloca_store(BState, v))

BuildMallocStore ==
    \E v \in Params :
        EmitMany("build_malloc_store", <<v>>, build_malloc_store(BState, v))

BuildGep ==
    \E ptr \in Pointers, i \in Params :
        EmitMany("build_gep", <<ptr, <<i>>>>, build_gep(BState, ptr, <<i>>))

BuildInboundsGep ==
    \E ptr \in Pointers, i \in Params :
        EmitMany("build_inbounds_gep", <<ptr, <<i>>>>,
                 build_inbounds_gep(BState, ptr, <<i>>))

BuildLoadFree ==
    \E ptr \in Pointers :
        EmitMany("build_load_free", <<ptr>>, build_load_free(BState, ptr))

BuildLoad ==
    \E ptr \in Pointers : EmitMany("build_load", <<ptr>>, build_load(BState, ptr))

\* Builder::position_before(v): an instruction of a block, or a parameter.
PositionBefore(v) ==
    /\ ~crashed
    /\ \E r \in position_before(BState, v) :
          /\ Commit("position_before", <<v>>, r)
          /\ pos' = IF r.outcome = "ok" /\ v[1] = "inst" /\ Home(BState, v) # {}
                    THEN [how |-> "before",
                          bb |-> CHOOSE b \in Home(BState, v) : TRUE, at |-> v[2]]
                    ELSE NoPos
    /\ snap' = [k \in 1..Len(bbs) |-> bbs[k].instrs]
    /\ emitted' = <<>>
    /\ UNCHANGED <<lifeVars, iterVars, extVars>>

BuildPhi ==
    \E incoming \in PhiLists :
        Emit("build_phi", incoming, build_phi(BState, incoming))

\* Builder::position_at_end(bb)
PositionAtEnd(b) ==
    /\ ~crashed
    /\ b \in 1..Len(bbs)
    /\ \E r \in position_at_end(BState, b) : Commit("position_at_end", <<b>>, r)
    /\ pos' = [how |-> "at_end", bb |-> b, at |-> 0]
    /\ snap' = [k \in 1..Len(bbs) |-> bbs[k].instrs]
    /\ emitted' = <<>>
    /\ UNCHANGED <<lifeVars, iterVars, extVars>>

\* Value::append_basic_block(name) on function f
AppendBasicBlock(f, name) ==
    /\ ~crashed
    /\ f \in FunctionDecls
    /\ Len(bbs) < MaxBlocks
    /\ \E r \in append_basic_block(BState, f, name) :
        /\ Commit("append_basic_block", name, r)
        /\ snap' = IF Len(r.st.bbs) > Len(bbs) THEN Append(snap, <<>>) ELSE snap
    /\ UNCHANGED <<pos, emitted, lifeVars, iterVars, extVars>>

\* A call that takes a name and touches neither blocks nor iterators.
Named(op, name, results) ==
    /\ ~crashed
    /\ \E r \in results : Commit(op, name, r)
    /\ UNCHANGED <<histVars, lifeVars, iter, extVars>>

CreateNamedModule(name) ==
    /\ Created < MaxEntities
    /\ Named("create_module", name, create_module(BState, name))
    /\ UNCHANGED iterHist

CreateNamedStruct(name) ==
    /\ Created < MaxEntities
    /\ Named("create_named_struct", name, create_named_struct(BState, name))
    /\ UNCHANGED iterHist

\* Adding a global value while an iterator is in use changes the list it
\* walks.
AddFunction(name) ==
    /\ Created < MaxEntities
    /\ Named("add_function", name, add_function(BState, name))
    /\ iterHist' = [iterHist EXCEPT !.dirty = @ \/ (iter.on /\ decls' # decls)]

AddGlobal(name) ==
    /\ Created < MaxEntities
    /\ Named("add_global", name, add_global(BState, name))
    /\ UNCHANGED iterHist

GetFunction(name) ==
    /\ Named("get_function", name, get_function(BState, name))
    /\ UNCHANGED iterHist

GetGlobal(name) ==
    /\ Named("get_global", name, get_global(BState, name))
    /\ UNCHANGED iterHist

SetName(d, name) ==
    /\ d \in 1..Len(decls)
    /\ unique < MaxUnique
    /\ Named("name", name, Value_name(BState, DeclV(d), name))
    /\ UNCHANGED iterHist

\* Module::functions()
FunctionsCall ==
    /\ ~crashed
    /\ iter' = functions(decls)
    /\ iterHist' = [yielded |-> <<>>, list |-> FunctionsOf(decls),
                    dirty |-> FALSE, ended |-> FALSE]
    /\ call' = Call("functions", <<>>, "ok", Unit, 1, "")
    /\ UNCHANGED <<backVars, histVars, lifeVars, extVars>>

\* Functions::next(); None is written <<"none", 0>>.
IterNext ==
    /\ ~crashed
    /\ iter.on
    /\ LET n == Functions_next(decls, iter) IN
        /\ iter' = n.it
        /\ iterHist' = [iterHist EXCEPT
                           !.yielded = IF n.some THEN Append(@, n.ret) ELSE @,
                           !.ended = @ \/ ~n.some]
        /\ call' = Call("next", <<>>, "ok",
                        IF n.some THEN n.ret ELSE <<"none", 0>>,
                        IF n.some THEN 1 ELSE 0, "")
    /\ UNCHANGED <<backVars, histVars, lifeVars, extVars>>

\* A writer: the wrapper's result for one of the backend's possible answers.
Write(op, path, w, b) ==
    /\ ~crashed
    /\ call' = [Call(op, path.s, w.outcome, Unit, IF w.reached THEN 1 ELSE 0,
                      w.msg)
                    EXCEPT !.io = IF w.reached THEN b ELSE NoIo]
    /\ UNCHANGED <<backVars, histVars, lifeVars, iterVars, extVars>>

WriteLlvmIr(path) ==
    \E b \in LLVMPrintModuleToFile :
        Write("write_llvm_ir", path, write_llvm_ir(path, b), b)

WriteBitcode(path) ==
    \E b \in LLVMWriteBitcodeToFile :
        Write("write_bitcode", path, write_bitcode(path, b), b)

\* =========================================================================
\* Deletion (val.rs, bb.rs)
\* =========================================================================

\* LLVMDeleteFunction / LLVMDeleteGlobal: the value leaves the module and is
\* freed; a function's blocks are freed with it.
LLVMDeleteFunction(S, v) ==
    [S EXCEPT !.decls[v[2]] = DeletedDecl,
              !.bbs = [b \in 1..Len(S.bbs) |->
                          IF S.bbs[b].fn = v[2]
                          THEN BasicBlockRec(0, <<>>, 0) ELSE S.bbs[b]],
              !.calls = @ + 1]

LLVMDeleteGlobal(S, v) ==
    [S EXCEPT !.decls[v[2]] = DeletedDecl, !.calls = @ + 1]

\* LLVMDeleteBasicBlock: the block leaves its function and is freed.
LLVMDeleteBasicBlock(S, bb) ==
    [S EXCEPT !.bbs[bb[2]] = BasicBlockRec(0, <<>>, 0), !.calls = @ + 1]

\* LLVMGetBasicBlockName: the block's name as the backend holds it.
LLVMGetBasicBlockName(S, bb) ==
    Ok([S EXCEPT !.calls = @ + 1],
       <<"name", S.bbs[bb[2]].base, S.bbs[bb[2]].suffix>>)

\* Value::delete_function(self): self is a copy of the handle; the pointer
\* is passed to the backend unchecked.
delete_function(S, v) ==
    IF Freed(S, v) THEN UseAfterFree(S)
    ELSE {Ok(LLVMDeleteFunction(S, v), Unit)}

\* Value::delete_global(self)
delete_global(S, v) ==
    IF Freed(S, v) THEN UseAfterFree(S)
    ELSE {Ok(LLVMDeleteGlobal(S, v), Unit)}

\* BasicBlock::delete(self)
BasicBlock_delete(S, bb) ==
    IF Freed(S, bb) THEN UseAfterFree(S)
    ELSE {Ok(LLVMDeleteBasicBlock(S, bb), Unit)}

\* BasicBlock::get_name(&self)
BasicBlock_get_name(S, bb) ==
    IF Freed(S, bb) THEN UseAfterFree(S)
    ELSE {LLVMGetBasicBlockName(S, bb)}

\* The methods called on a handle: the handle is the first argument.
HandleOps == {"delete_function", "delete_global", "delete", "get_name", "name"}

\* A method called on a handle given out before, deleted since or not.
OnHandle(op, arg, results) ==
    /\ ~crashed
    /\ \E r \in results : Commit(op, arg, r)
    /\ UNCHANGED <<histVars, lifeVars, iterVars, extVars>>

DeleteFunction(d) ==
    /\ d \in 1..Len(decls) /\ decls[d].kind # "global"
    /\ OnHandle("delete_function", <<DeclV(d)>>,
                delete_function(BState, DeclV(d)))

\* Functions::next() while functions are deleted.  On a pointer to a live
\* function or null it is IterNext.  On a pointer to a deleted function
\* LLVMGetNextFunction reads freed memory: the process dies, or the deleted
\* handle is yielded and the pointer becomes whatever was read.
TraverseNext ==
    IF iter.on /\ iter.pointer # Null /\ Freed(BState, iter.pointer)
    THEN /\ ~crashed
         /\ Len(iterHist.yielded) < MaxEntities
         /\ \/ /\ crashed' = TRUE
               /\ call' = Call("next", <<>>, "crash", Null, 1, "")
               /\ UNCHANGED iterVars
            \/ \E p \in {Null} \cup {DeclV(d) : d \in 1..Len(decls)} :
                  /\ iter' = [iter EXCEPT !.pointer = p]
                  /\ iterHist' = [iterHist EXCEPT !.yielded = Append(@, iter.pointer)]
                  /\ call' = Call("next", <<>>, "ok", iter.pointer, 1, "")
                  /\ UNCHANGED crashed
         /\ UNCHANGED <<decls, unique, modules, structs, bbs, cursor, nextInstr,
                        loose, histVars, lifeVars, extVars>>
    ELSE IterNext

\* Value::delete_function on a live function while an iterator may be in
\* use: the traversal is disturbed unless the function was yielded already.
TraverseDelete(d) ==
    /\ ~crashed
    /\ d \in 1..Len(decls) /\ decls[d].kind = "function"
    /\ \E r \in delete_function(BState, DeclV(d)) :
          Commit("delete_function", <<DeclV(d)>>, r)
    /\ iterHist' = [iterHist EXCEPT
                       !.dirty = @ \/ (iter.on /\ \A k \in 1..Len(iterHist.yielded) :
                                                      iterHist.yielded[k] # DeclV(d))]
    /\ UNCHANGED <<iter, histVars, lifeVars, extVars>>

DeleteGlobal(d) ==
    /\ d \in 1..Len(decls) /\ decls[d].kind # "function"
    /\ OnHandle("delete_global", <<DeclV(d)>>, delete_global(BState, DeclV(d)))

HandleName(d, name) ==
    /\ d \in 1..Len(decls)
    /\ unique < MaxUnique
    /\ OnHandle("name", <<DeclV(d), name>>, Value_name(BState, DeclV(d), name))

BlockDelete(b) ==
    /\ b \in 1..Len(bbs)
    /\ OnHandle("delete", <<Block(b)>>, BasicBlock_delete(BState, Block(b)))

BlockGetName(b) ==
    /\ b \in 1..Len(bbs)
    /\ OnHandle("get_name", <<Block(b)>>, BasicBlock_get_name(BState, Block(b)))

\* =========================================================================
\* Targets (target.rs)
\* =========================================================================

\* A `*const i8` given out by the backend, and an Option<String>: <<>> is
\* the null pointer / None, <<s>> is a pointer to the bytes s / Some(s).
\* c_api::from_c: Some(the characters before the NUL) when the pointer is
\* not null and the string not empty, None otherwise.
from_c(p) ==
    IF p = <<>> THEN <<>>
    ELSE IF CStr(p[1]) = <<>> THEN <<>> ELSE <<CStr(p[1])>>

\* Option::unwrap_or
unwrap_or(o, d) == IF o = <<>> THEN d ELSE o[1]

\* The triples, cpu names and paths the target calls are given.  The backend
\* knows the triple "x" and not the triple "q".
Triples == {<<"x">>, <<"q">>, <<"x", NUL>>}
Cpus == {<<"g">>, <<NUL>>}
FileTypes == {"Assembly", "Object"}

\* The backend's target registry: how often each initializer has run.
NoRegistry == [targets |-> 0, infos |-> 0, mcs |-> 0, printers |-> 0]
LLVM_InitializeAllTargets(reg) == [reg EXCEPT !.targets = @ + 1]
LLVM_InitializeAllTargetInfos(reg) == [reg EXCEPT !.infos = @ + 1]
LLVM_InitializeAllTargetMCs(reg) == [reg EXCEPT !.mcs = @ + 1]
\* Registering the printers again replaces each by itself.
LLVM_InitializeAllAsmPrinters(reg) == [reg EXCEPT !.printers = 1]

\* What the backend answered: the routine asked, its return code, the target
\* it stored (0: null) and the message pointer it stored.
Reply(routine, rc, target, error) ==
    [routine |-> routine, rc |-> rc, target |-> target, error |-> error]
NoReply == Reply("none", 0, 0, <<>>)

\* LLVMGetTargetFromTriple: 0 and the target when a registered target fits
\* the triple; else 1, a null target and a message.
LLVMGetTargetFromTriple(reg, ctriple) ==
    IF reg.infos > 0 /\ ctriple = <<"x">>
    THEN {Reply("LLVMGetTargetFromTriple", 0, 1, <<>>)}
    ELSE {Reply("LLVMGetTargetFromTriple", 1, 0, <<<<"n", "o", NUL>>>>)}

\* LLVMGetDefaultTargetTriple: the triple the backend was built for, which
\* is a target of this build or not.
LLVMGetDefaultTargetTriple == {<<<<"x", NUL>>>>, <<<<"q", NUL>>>>}

\* LLVMTargetMachineEmitToFile: 0, or 1 and a message when the file cannot
\* be opened or the machine cannot emit that file type.
LLVMTargetMachineEmitToFile ==
    {Reply("LLVMTargetMachineEmitToFile", 0, 0, <<>>),
     Reply("LLVMTargetMachineEmitToFile", 1, 0, <<<<"i", "o", NUL>>>>),
     Reply("LLVMTargetMachineEmitToFile", 1, 0, <<<<"t", "y", NUL>>>>)}

\* The target state a call reads and writes.
TState ==
    [uninitialized |-> uninitialized, registry |-> registry,
     machines |-> machines, owners |-> owners, crashed |-> crashed]

\* One way a target call can end: Ok(ret), Err(msg), a panic, or the death
\* of the process inside the backend.
TOk(T, ret, b) ==
    [st |-> T, outcome |-> "ok", ret |-> ret, msg |-> <<>>, reply |-> b]
TErr(T, msg, b) ==
    [st |-> T, outcome |-> "err", ret |-> Null, msg |-> msg, reply |-> b]
TPanic(T, msg, b) ==
    [st |-> T, outcome |-> "panic", ret |-> Null, msg |-> msg, reply |-> b]
TCrash(T) ==
    [st |-> [T EXCEPT !.crashed = TRUE], outcome |-> "crash", ret |-> Null,
     msg |-> <<>>, reply |-> NoReply]

\* initialize(): "if UNINITIALIZED { UNINITIALIZED = false; ...three
\* initializers... }", run by one thread without interruption.
initialize(T) ==
    IF T.uninitialized
    THEN [T EXCEPT !.uninitialized = FALSE,
                   !.registry = LLVM_InitializeAllTargetMCs(
                                    LLVM_InitializeAllTargetInfos(
                                        LLVM_InitializeAllTargets(@)))]
    ELSE T

from_triple_unchecked(T, triple) ==
    LET I == initialize(T)
        c == into_c(triple)
    IN IF ~c.ok THEN {TPanic(I, "invalid name", NoReply)}
       ELSE {TOk(I, <<"target", b.target>>, b) :
                b \in LLVMGetTargetFromTriple(I.registry, CStr(c.bytes))}

\* Target::from_triple: initialize(), then the lookup; Err(message, or "")
\* when it returned 1 or stored a null target, else Ok(Target).
from_triple(T, triple) ==
    LET I == initialize(T)
        c == into_c(triple)
    IN IF ~c.ok THEN {TPanic(I, "invalid name", NoReply)}
       ELSE {IF b.rc = 1 \/ b.target = 0
             THEN TErr(I, unwrap_or(from_c(b.error), <<>>), b)
             ELSE TOk(I, <<"target", b.target>>, b) :
                b \in LLVMGetTargetFromTriple(I.registry, CStr(c.bytes))}

\* A backend object (target machine or data layout) and a Rust value that
\* holds a pointer to one.
BackendObject(kind) == [kind |-> kind, disposed |-> 0]
Owner(kind, ptr) == [kind |-> kind, ptr |-> ptr, scope |-> "live"]

\* LLVMCreateTargetMachine: a new target machine.
LLVMCreateTargetMachine(T, target) ==
    [T EXCEPT !.machines = Append(@, BackendObject("machine"))]

\* Target::create_machine_with_options: the three strings are converted,
\* then the machine is created and wrapped.
create_machine_with_options(T, target, triple, cpu, features) ==
    IF ~into_c(triple).ok \/ ~into_c(cpu).ok \/ ~into_c(features).ok
    THEN TPanic(T, "invalid name", NoReply)
    ELSE LET M == LLVMCreateTargetMachine(T, target)
         IN TOk([M EXCEPT !.owners =
                              Append(@, Owner("TargetMachine", Len(M.machines)))],
                <<"machine", Len(M.owners) + 1>>, NoReply)

\* Target::create_machine: cpu "generic", no features.
create_machine(T, target, triple) ==
    create_machine_with_options(T, target, triple, <<"g">>, <<>>)

\* TargetMachine::new: "Ok(Target::from_triple(triple.clone())?
\* .create_machine(triple))".
TargetMachine_new(T, triple) ==
    {IF r.outcome # "ok" THEN r
     ELSE [create_machine(r.st, r.ret[2], triple) EXCEPT !.reply = r.reply] :
        r \in from_triple(T, triple)}

\* TargetMachine::new_with_options
new_with_options(T, triple, cpu, features) ==
    {IF r.outcome # "ok" THEN r
     ELSE [create_machine_with_options(r.st, r.ret[2], triple, cpu, features)
              EXCEPT !.reply = r.reply] :
        r \in from_triple(T, triple)}

\* target::default_triple: from_c(LLVMGetDefaultTargetTriple()), or "".
default_triple(p) == unwrap_or(from_c(p), <<>>)

\* TargetMachine::native
native(T) ==
    UNION {TargetMachine_new(T, default_triple(p)) :
              p \in LLVMGetDefaultTargetTriple}

\* TargetMachine::emit_module_to_file: the printers are initialized, the
\* path converted, the backend asked; Err(message, or "") when it returned 1.
emit_module_to_file(T, path, b) ==
    LET I == [T EXCEPT !.registry = LLVM_InitializeAllAsmPrinters(@)]
    IN IF ~path.utf8 THEN TPanic(I, "invalid path", NoReply)
       ELSE IF ~into_c(path.s).ok THEN TPanic(I, "invalid name", NoReply)
       ELSE IF b.rc = 1 THEN TErr(I, unwrap_or(from_c(b.error), <<>>), b)
       ELSE TOk(I, Unit, b)

\* LLVMDisposeTargetMachine / LLVMDisposeTargetData: one more call for the
\* object.
LLVMDisposeTargetMachine(T, ptr) == [T EXCEPT !.machines[ptr].disposed = @ + 1]
LLVMDisposeTargetData(T, ptr) == [T EXCEPT !.machines[ptr].disposed = @ + 1]

\* impl Drop for TargetMachine / TargetData: the pointer is disposed, always.
TargetMachine_drop(T, o) ==
    [LLVMDisposeTargetMachine(T, T.owners[o].ptr)
        EXCEPT !.owners[o].scope = "gone"]
TargetData_drop(T, o) ==
    [LLVMDisposeTargetData(T, T.owners[o].ptr)
        EXCEPT !.owners[o].scope = "gone"]

\* #[derive(Clone)] on a struct whose one field is the raw pointer: the
\* clone holds the same pointer.
Owner_clone(T, o) ==
    [T EXCEPT !.owners = Append(@, Owner(T.owners[o].kind, T.owners[o].ptr))]

\* LLVMCreateTargetDataLayout on a machine: a new data layout; on a machine
\* already disposed the backend reads freed memory.
LLVMCreateTargetDataLayout(T, ptr) ==
    LET D == [T EXCEPT !.machines = Append(@, BackendObject("data"))]
    IN IF T.machines[ptr].disposed = 0 THEN {[st |-> D, died |-> FALSE]}
       ELSE {[st |-> D, died |-> FALSE], [st |-> T, died |-> TRUE]}

\* TargetMachine::data_layout
data_layout(T, o) ==
    {IF d.died THEN TCrash(T)
     ELSE TOk([d.st EXCEPT !.owners =
                              Append(@, Owner("TargetData", Len(d.st.machines)))],
              <<"data", Len(T.owners) + 1>>, NoReply) :
        d \in LLVMCreateTargetDataLayout(T, T.owners[o].ptr)}

\* ------------------------------------------------------ actions (targets)
TargetOps ==
    {"from_triple", "new", "new_with_options", "native", "emit_module_to_file"}

\* The call ended as r.
TCommit(op, arg, r) ==
    /\ uninitialized' = r.st.uninitialized
    /\ registry' = r.st.registry
    /\ machines' = r.st.machines
    /\ owners' = r.st.owners
    /\ crashed' = r.st.crashed
    /\ reply' = r.reply
    /\ call' = Call(op, arg, r.outcome, r.ret, 0, r.msg)
    /\ UNCHANGED <<threads, typeVars, origin, lifeVars, histVars, iterVars,
                   decls, unique, modules, structs, bbs, cursor, nextInstr,
                   loose>>

FromTriple(triple) ==
    /\ ~crashed
    /\ \E r \in from_triple(TState, triple) :
          TCommit("from_triple", triple, r)

TargetMachineNew(triple) ==
    /\ ~crashed
    /\ Len(machines) < MaxMachines /\ Len(owners) < MaxOwners
    /\ \E r \in TargetMachine_new(TState, triple) : TCommit("new", triple, r)

NewWithOptions(triple, cpu) ==
    /\ ~crashed
    /\ Len(machines) < MaxMachines /\ Len(owners) < MaxOwners
    /\ \E r \in new_with_options(TState, triple, cpu, <<>>) :
          TCommit("new_with_options", <<triple, cpu>>, r)

Native ==
    /\ ~crashed
    /\ Len(machines) < MaxMachines /\ Len(owners) < MaxOwners
    /\ \E r \in native(TState) : TCommit("native", <<>>, r)

LiveOwner(o, kind) ==
    o \in 1..Len(owners) /\ owners[o].scope = "live" /\ owners[o].kind = kind

EmitModuleToFile(o, path, ft) ==
    /\ ~crashed
    /\ LiveOwner(o, "TargetMachine")
    /\ \E b \in LLVMTargetMachineEmitToFile :
          TCommit("emit_module_to_file", <<o, path.s, ft>>,
                  emit_module_to_file(TState, path, b))

\* A TargetMachine or TargetData leaves scope.
DropOwner(o) ==
    /\ ~crashed
    /\ o \in 1..Len(owners) /\ owners[o].scope = "live"
    /\ TCommit("drop", <<o>>,
               TOk(IF owners[o].kind = "TargetMachine"
                   THEN TargetMachine_drop(TState, o)
                   ELSE TargetData_drop(TState, o), Unit, NoReply))

\* clone() of a TargetMachine or TargetData
CloneOwner(o) ==
    /\ ~crashed
    /\ o \in 1..Len(owners) /\ owners[o].scope = "live"
    /\ Len(owners) < MaxOwners
    /\ TCommit("clone", <<o>>,
               TOk(Owner_clone(TState, o), <<"owner", Len(owners) + 1>>,
                   NoReply))

DataLayout(o) ==
    /\ ~crashed
    /\ LiveOwner(o, "TargetMachine")
    /\ Len(machines) < MaxMachines /\ Len(owners) < MaxOwners
    /\ \E r \in data_layout(TState, o) : TCommit("data_layout", <<o>>, r)

\* Concurrent first calls of Target::from_triple.  A thread is at "start"
\* (about to call), inside initialize() at the test of UNINITIALIZED's value
\* ("set": it read true), at one of the three initializers, at the lookup,
\* or "done".  early records that its lookup ran before any initialization
\* had completed.
NoThread ==
    [pc |-> "start", triple |-> <<>>, result |-> "none", early |-> FALSE]

ThreadVars ==
    <<machines, owners, typeVars, origin, lifeVars, histVars, iterVars,
      backVars, call>>

\* "if UNINITIALIZED": the read of the flag.
InitCheck(t, triple) ==
    /\ threads[t].pc = "start"
    /\ threads' = [threads EXCEPT
                      ![t].triple = triple,
                      ![t].pc = IF uninitialized THEN "set" ELSE "lookup"]
    /\ UNCHANGED <<uninitialized, registry, reply, ThreadVars>>

\* "UNINITIALIZED = false"
InitSet(t) ==
    /\ threads[t].pc = "set"
    /\ uninitialized' = FALSE
    /\ threads' = [threads EXCEPT ![t].pc = "targets"]
    /\ UNCHANGED <<registry, reply, ThreadVars>>

InitTargets(t) ==
    /\ threads[t].pc = "targets"
    /\ registry' = LLVM_InitializeAllTargets(registry)
    /\ threads' = [threads EXCEPT ![t].pc = "infos"]
    /\ UNCHANGED <<uninitialized, reply, ThreadVars>>

InitInfos(t) ==
    /\ threads[t].pc = "infos"
    /\ registry' = LLVM_InitializeAllTargetInfos(registry)
    /\ threads' = [threads EXCEPT ![t].pc = "mcs"]
    /\ UNCHANGED <<uninitialized, reply, ThreadVars>>

InitMCs(t) ==
    /\ threads[t].pc = "mcs"
    /\ registry' = LLVM_InitializeAllTargetMCs(registry)
    /\ threads' = [threads EXCEPT ![t].pc = "lookup"]
    /\ UNCHANGED <<uninitialized, reply, ThreadVars>>

\* The lookup of from_triple.
ThreadLookup(t) ==
    /\ threads[t].pc = "lookup"
    /\ \E b \in LLVMGetTargetFromTriple(registry,
                                         CStr(into_c(threads[t].triple).bytes)) :
        /\ reply' = b
        /\ threads' = [threads EXCEPT
                          ![t].pc = "done",
                          ![t].result = IF b.rc = 1 \/ b.target = 0
                                        THEN "err" ELSE "ok",
                          ![t].early = registry.mcs = 0]
    /\ UNCHANGED <<uninitialized, registry, ThreadVars>>

\* =========================================================================
\* Types and constants (ty.rs, context.rs)
\* =========================================================================

\* Two Contexts.  The backend keeps one object per type and context, so a
\* type is written by its structure: its kind, the context that owns it,
\* its width (integers) or length (arrays), and its element types.
Contexts == {1, 2}
TypeRec(kind, ctx, bits, elems) ==
    [kind |-> kind, ctx |-> ctx, bits |-> bits, elems |-> elems]

\* Type<'c> and Value<'c>: the context the wrapper names and the pointer.
TypeH(c, T) == [context |-> c, ty |-> T]
ValueH(c, v) == [context |-> c, value |-> v]

\* lib.rs ty_vec / val_vec: the pointers of the handles, in order.
ty_vec(types) == [k \in 1..Len(types) |-> types[k].ty]
val_vec(values) == [k \in 1..Len(values) |-> values[k].value]

\* The backend's type constructors.  LLVMArrayType and LLVMFunctionType are
\* not given a context: the new type is owned by the context of the element
\* type / of the return type.
LLVMInt8TypeInContext(c) == TypeRec("int", c, 8, <<>>)
LLVMInt16TypeInContext(c) == TypeRec("int", c, 16, <<>>)
LLVMInt64TypeInContext(c) == TypeRec("int", c, 64, <<>>)
LLVMInt128TypeInContext(c) == TypeRec("int", c, 128, <<>>)
LLVMFloatTypeInContext(c) == TypeRec("float", c, 0, <<>>)
LLVMArrayType(T, count) == TypeRec("array", T.ctx, count, <<T>>)
LLVMFunctionType(ret, params) == TypeRec("function", ret.ctx, 0, <<ret>> \o params)
LLVMStructTypeInContext(c, elems) == TypeRec("struct", c, 0, elems)

\* A constant: its type and its value.  The value of an integer constant is
\* written in binary, lowest bit first, one bit for each bit of the type.
ConstV(T, x) == <<"const", T, x>>

\* The lowest w bits of the natural number n (below 2^31).
BitsOf(n, w) == [k \in 1..w |-> IF k > 31 THEN 0 ELSE (n \div (2 ^ (k - 1))) % 2]
Complement(N) == [k \in 1..Len(N) |-> 1 - N[k]]

\* A u64 argument, and mem::transmute of an i64 to u64: the same 64 bits,
\* which for a negative number are the complement of those of -val - 1.
U64(val) == BitsOf(val, 64)
Transmute(val) == IF val >= 0 THEN U64(val) ELSE Complement(U64(-val - 1))

\* APInt(bits, N, isSigned = false) of a 64-bit word N: the low bits of N
\* for a width up to 64, and N with zeros above it for a greater width.
APInt(bits, N) == [k \in 1..bits |-> IF k <= 64 THEN N[k] ELSE 0]

\* The constant n of the integer type T.
IntConst(T, n) == ConstV(T, BitsOf(n, T.bits))

\* LLVMConstStructInContext: a constant of the struct type, in context c, of
\* the elements' types.
LLVMConstStructInContext(c, values) ==
    ConstV(LLVMStructTypeInContext(c, [k \in 1..Len(values) |-> values[k][2]]),
           values)

\* LLVMConstInt(ty, val, 0): the constant of integer type ty whose value is
\* val cut to the type's width.  The routine takes ty for an integer type
\* without testing it: for another type a build with assertions aborts, and
\* one without reads the width from a field that is not one and returns a
\* constant of the integer type of that width.
\* The word N is the argument of LLVMConstInt(ty, N, SignExtend = 0): it is
\* not sign-extended.
LLVMConstInt(T, N) ==
    IF T.kind = "int" THEN {[died |-> FALSE, value |-> ConstV(T, APInt(T.bits, N))]}
    ELSE {[died |-> TRUE, value |-> ConstV(T, <<>>)],
          [died |-> FALSE,
           value |-> ConstV(TypeRec("int", T.ctx, T.bits, <<>>), <<>>)]}

\* The body of a named struct type: opaque until set.
Opaque == [opaque |-> TRUE, elems |-> <<>>]
Body(elems) == [opaque |-> FALSE, elems |-> elems]

\* LLVMStructSetBody: the body of an opaque struct becomes elems.  On a
\* struct that has a body a build with assertions aborts ("Struct body
\* already set!") and one without replaces the body.
LLVMStructSetBody(bs, k, elems) ==
    IF bs[k].opaque THEN {[died |-> FALSE, bodies |-> [bs EXCEPT ![k] = Body(elems)]]}
    ELSE {[died |-> TRUE, bodies |-> bs],
          [died |-> FALSE, bodies |-> [bs EXCEPT ![k] = Body(elems)]]}

\* One way a call on types can end.
YOk(ret, bs) == [outcome |-> "ok", ret |-> ret, bodies |-> bs]
YCrash(ret, bs) == [outcome |-> "crash", ret |-> ret, bodies |-> bs]

\* Context::ty_i8 / ty_i16 / ty_float
ty_i8(c) == TypeH(c, LLVMInt8TypeInContext(c))
ty_i16(c) == TypeH(c, LLVMInt16TypeInContext(c))
ty_i64(c) == TypeH(c, LLVMInt64TypeInContext(c))
ty_i128(c) == TypeH(c, LLVMInt128TypeInContext(c))
ty_float(c) == TypeH(c, LLVMFloatTypeInContext(c))

\* Type::function: the result is labelled with self's context.
Type_function(self, params) ==
    TypeH(self.context, LLVMFunctionType(self.ty, ty_vec(params)))

\* Context::ty_array: the result is labelled with the context called.
ty_array(c, ty, count) == TypeH(c, LLVMArrayType(ty.ty, count))

\* Context::ty_struct
ty_struct(c, elements) == TypeH(c, LLVMStructTypeInContext(c, ty_vec(elements)))

\* Context::const_struct
const_struct(c, elements) ==
    ValueH(c, LLVMConstStructInContext(c, val_vec(elements)))

\* Type::const_int
const_int(self, val) ==
    {IF r.died THEN YCrash(ValueH(self.context, Null), bodies)
     ELSE YOk(ValueH(self.context, r.value), bodies) :
        r \in LLVMConstInt(self.ty, U64(val))}

\* Type::const_signed_int
const_signed_int(self, val) ==
    {IF r.died THEN YCrash(ValueH(self.context, Null), bodies)
     ELSE YOk(ValueH(self.context, r.value), bodies) :
        r \in LLVMConstInt(self.ty, Transmute(val))}

\* Value::ty
Value_ty(self) == TypeH(self.context, LLVMTypeOf(BState, self.value))

\* Type::struct_set_body: passed on to the backend, whatever the type's
\* state.
struct_set_body(bs, self, elements) ==
    {IF r.died THEN YCrash(Unit, r.bodies) ELSE YOk(Unit, r.bodies) :
        r \in LLVMStructSetBody(bs, self.ty[2], ty_vec(elements))}

\* ------------------------------------------------------- actions (types)
\* The types the factories give, the lists of them the calls are given, and
\* the integers made constants.
BaseTypes == UNION {{ty_i8(c), ty_i16(c), ty_float(c)} : c \in Contexts}
TypeLists ==
    {<<>>} \cup {<<t>> : t \in {ty_i16(1), ty_i16(2)}}
           \cup {<<ty_i8(1), ty_i16(1)>>, <<ty_i8(1), ty_i16(2)>>}
Ints == {0, 1, 256}

\* The handle of the k-th named struct type (of context 1).
NamedStruct(k) == TypeH(1, <<"type", k>>)

\* The call ended as r.  The first argument is the Type, or the number of
\* the Context, the method is called on.
YCommit(op, arg, r) ==
    /\ ~crashed
    /\ call' = Call(op, arg, r.outcome, r.ret, 1, "")
    /\ crashed' = (r.outcome = "crash")
    /\ bodies' = r.bodies
    /\ UNCHANGED <<targetVars, origin, lifeVars, histVars, iterVars, decls,
                   unique, modules, structs, bbs, cursor, nextInstr, loose>>

TypeFunction(T, params) ==
    YCommit("function", <<T, params>>, YOk(Type_function(T, params), bodies))

TyArray(c, T) ==
    YCommit("ty_array", <<c, <<T>>>>, YOk(ty_array(c, T, 2), bodies))

TyStruct(c, elements) ==
    YCommit("ty_struct", <<c, elements>>,
            YOk(ty_struct(c, elements), bodies))

ConstInt(T, x) ==
    \E r \in const_int(T, x) : YCommit("const_int", <<T, x>>, r)

\* The integer types and the i64 values const_signed_int is given: the
\* least and the greatest of an i8 and their neighbours among them.
IntTypes == UNION {{ty_i8(c), ty_i16(c), ty_i64(c), ty_i128(c)} : c \in Contexts}
SignedInts == {-129, -128, -2, -1, 0, 1, 127, 128}

ConstSignedInt(T, x) ==
    \E r \in const_signed_int(T, x) : YCommit("const_signed_int", <<T, x>>, r)

\* const_struct of the constant just made and one of the other context.
ConstStruct(c, d) ==
    /\ call.op = "const_int" /\ call.outcome = "ok"
    /\ LET other == ValueH(d, IntConst(LLVMInt16TypeInContext(d), 1))
       IN YCommit("const_struct", <<c, <<call.ret, other>>>>,
                  YOk(const_struct(c, <<call.ret, other>>), bodies))

\* ty() of the constant just made.
ValueTy ==
    /\ call.op = "const_int" /\ call.outcome = "ok"
    /\ YCommit("ty", <<call.ret>>, YOk(Value_ty(call.ret), bodies))

StructSetBody(k, elements) ==
    /\ k \in 1..Len(structs)
    /\ \E r \in struct_set_body(bodies, NamedStruct(k), elements) :
          YCommit("struct_set_body", <<NamedStruct(k), elements>>, r)

\* =========================================================================
\* Aggregates built field by field (builder.rs)
\* =========================================================================

\* LLVMGetUndef (Type::undef) and LLVMPointerType (Type::pointer).
LLVMGetUndef(T) == <<"undef", T>>
LLVMPointerType(T) == TypeRec("pointer", T.ctx, 0, <<T>>)

\* Constants: integer constants, undef, and the aggregates folded from them.
IsConstant(v) == v[1] \in {"const", "undef", "agg"}

\* The constant aggregate `agg` with the constant elt at index: the fields
\* set so far, in the order they were set.
FoldInsertValue(agg, elt, index) ==
    <<"agg", agg[2],
      (IF agg[1] = "agg" THEN agg[3] ELSE <<>>) \o <<<<index, elt>>>>>>

\* LLVMBuildInsertValue: the builder folds constants.  When the aggregate
\* and the element are both constants no instruction is created and the
\* result is the constant aggregate; else an insertvalue instruction is
\* inserted at the builder's position.
LLVMBuildInsertValue(S, agg, elt, index) ==
    IF IsConstant(agg) /\ IsConstant(elt)
    THEN {Ok([S EXCEPT !.calls = @ + 1], FoldInsertValue(agg, elt, index))}
    ELSE LLVMInsert(S, "insertvalue", LLVMTypeOf(S, agg), <<agg, elt, index>>)

\* LLVMBuildPointerCast of an allocation: a cast instruction.
LLVMBuildPointerCast(S, ptr, T) == LLVMInsert(S, "bitcast", T, <<ptr>>)

\* Builder::build_insert_value
build_insert_value(S, agg, elt, index) == LLVMBuildInsertValue(S, agg, elt, index)

\* Builder::build_pointer_cast
build_pointer_cast(S, ptr, T) == LLVMBuildPointerCast(S, ptr, T)

\* format!("insert_{}", index): the prefix followed by the decimal digit.
Digits == <<"0", "1", "2", "3", "4", "5", "6", "7", "8", "9">>
Format(prefix, index) == <<prefix, Digits[index + 1]>>

\* for (index, element) in elements.into_iter().enumerate() {
\*     agg = self.build_insert_value(agg, element, index).name(format!(..)) }
\* from the i-th element on; name() returns the value it was called on.
RECURSIVE InsertEach(_, _, _, _, _)
InsertEach(S, agg, elements, i, prefix) ==
    IF i > Len(elements) THEN {Ok(S, agg)}
    ELSE Then(build_insert_value(S, agg, elements[i], i - 1),
              LAMBDA r :
                  Then(Value_name(r.st, r.ret, Format(prefix, i - 1)),
                       LAMBDA n : InsertEach(n.st, n.ret, elements, i + 1, prefix)))

RECURSIVE InsertEachUnnamed(_, _, _, _)
InsertEachUnnamed(S, agg, elements, i) ==
    IF i > Len(elements) THEN {Ok(S, agg)}
    ELSE Then(build_insert_value(S, agg, elements[i], i - 1),
              LAMBDA r : InsertEachUnnamed(r.st, r.ret, elements, i + 1))

build_struct_init_unnamed(S, T, elements) ==
    InsertEachUnnamed(S, LLVMGetUndef(T), elements, 1)

\* Builder::build_struct_init
build_struct_init(S, T, elements) ==
    InsertEach(S, LLVMGetUndef(T), elements, 1, "insert_")

build_array_alloca_store_uncast(S, T, elements) ==
    Then(InsertEach(S, LLVMGetUndef(LLVMArrayType(T, Len(elements))),
                    elements, 1, "insert_elem_"),
         LAMBDA a : build_alloca_store(a.st, a.ret))

\* Builder::build_array_alloca_store: types.rs ty_array(ty, len) is
\* LLVMArrayType; the arguments of build_pointer_cast are evaluated first,
\* build_alloca_store and then ty.pointer().
build_array_alloca_store(S, T, elements) ==
    Then(InsertEach(S, LLVMGetUndef(LLVMArrayType(T, Len(elements))),
                    elements, 1, "insert_elem_"),
         LAMBDA a :
             Then(build_alloca_store(a.st, a.ret),
                  LAMBDA p : build_pointer_cast(p.st, p.ret, LLVMPointerType(T))))

\* Builder::build_array_malloc_store
build_array_malloc_store(S, T, elements) ==
    Then(InsertEach(S, LLVMGetUndef(LLVMArrayType(T, Len(elements))),
                    elements, 1, "insert_elem_"),
         LAMBDA a :
             Then(build_malloc_store(a.st, a.ret),
                  LAMBDA p : build_pointer_cast(p.st, p.ret, LLVMPointerType(T))))

\* ---------------------------------------------------- actions (aggregates)
\* The element type and the struct type given, and the element lists: up
\* to two of the function's parameters and an integer constant.
ElemType == LLVMInt16TypeInContext(1)
StructType == LLVMStructTypeInContext(1, <<ElemType, ElemType>>)
Elements == Params \cup {IntConst(ElemType, 1)}
ElementLists ==
    {<<>>} \cup {<<e>> : e \in Elements} \cup {<<e, g>> : e \in Elements, g \in Elements}

BuildStructInit ==
    \E elements \in ElementLists :
        Emit("build_struct_init", <<StructType, elements>>,
                 build_struct_init(BState, StructType, elements))

BuildArrayAllocaStore ==
    \E elements \in ElementLists :
        Emit("build_array_alloca_store", <<ElemType, elements>>,
                 build_array_alloca_store(BState, ElemType, elements))

BuildArrayMallocStore ==
    \E elements \in ElementLists :
        Emit("build_array_malloc_store", <<ElemType, elements>>,
                 build_array_malloc_store(BState, ElemType, elements))

\* ------------------------------------------------------- actions (switch)
\* The case lists a build_switch is given: none, one case, two cases with
\* different constants and targets, and one whose value is no constant.
SwitchLists ==
    {<<>>} \cup
    (IF bbs = <<>> THEN {}
     ELSE {<<<<IntConst(ElemType, 0), Block(1)>>>>,
           <<<<IntConst(ElemType, 1), Block(Len(bbs))>>,
             <<IntConst(ElemType, 0), Block(1)>>>>,
           <<<<Param(0), Block(1)>>>>})

BuildSwitch ==
    \E cases \in SwitchLists, d \in 1..Len(bbs) :
        Emit("build_switch", <<Param(1), cases, Block(d)>>,
             build_switch(BState, Param(1), cases, Block(d)))

\* =========================================================================
\* Handles and the Context they came from (context.rs, val.rs, bb.rs)
\* =========================================================================

\* The Context a Module, Builder, Type or BasicBlock was created from: the
\* one it borrows, or for a BasicBlock, which borrows none, the one recorded
\* when it was made.
ContextOf(w) ==
    IF wrappers[w].ctx # 0 THEN wrappers[w].ctx
    ELSE CHOOSE c \in 1..MaxWrappers : <<w, c>> \in origin

\* The Context was dropped: LLVMContextDispose has freed everything in it.
Disposed(c) == wrappers[c].scope = "gone" /\ disposeCalls[wrappers[c].made] > 0

\* The method of each kind that hands the pointer to the backend.
\* Module::dump, Builder::build_unreachable, Type::dump, BasicBlock::get_name.
UseOps ==
    [Module |-> "dump", Builder |-> "build_unreachable", Type |-> "dump",
     BasicBlock |-> "get_name"]

\* The backend reads the object behind the pointer.  After the Context was
\* disposed the object is freed memory: the read returns something or the
\* process dies.
LLVMRead(w) == IF Disposed(ContextOf(w)) THEN {"ok", "crash"} ELSE {"ok"}

\* Context::ty_i8(&'c self) -> Type<'c>: the Type holds &'c Context.
ScopeTyI8(c) ==
    /\ Len(wrappers) < MaxWrappers
    /\ Live(c) /\ wrappers[c].kind = "Context" /\ wrappers[c].inner # None
    /\ wrappers' = Append(wrappers, Wrapper("Type", FreshHandle, c))
    /\ UNCHANGED <<disposeCalls, returned, backVars, histVars, iterVars, call,
                   extVars>>

\* module.add_function(..).append_basic_block(..) -> BasicBlock: the block is
\* made in the Context of the function Value, and the BasicBlock returned
\* holds the pointer and no reference to the Context (ctx = 0).
ScopeAppendBasicBlock(m) ==
    /\ Len(wrappers) < MaxWrappers
    /\ Live(m) /\ wrappers[m].kind = "Module" /\ wrappers[m].inner # None
    /\ wrappers' = Append(wrappers, Wrapper("BasicBlock", FreshHandle, 0))
    /\ origin' = origin \cup {<<FreshHandle, wrappers[m].ctx>>}
    /\ UNCHANGED <<disposeCalls, returned, backVars, histVars, iterVars, call,
                   targetVars, typeVars>>

\* A method call on a value the program still holds.
ScopeUse(w) ==
    /\ Live(w) /\ wrappers[w].kind \in DOMAIN UseOps
    /\ wrappers[w].inner # None
    /\ \E outcome \in LLVMRead(w) :
        /\ call' = Call(UseOps[wrappers[w].kind], <<w>>, outcome, Unit, 1, "")
        /\ crashed' = (outcome = "crash")
    /\ UNCHANGED <<lifeVars, histVars, iterVars, extVars, decls, unique,
                   modules, structs, bbs, cursor, nextInstr, loose>>

\* =========================================================================
\* Specifications
\* =========================================================================

\* The variables of the target, type and scope parts before any call.
ExtInit ==
    /\ uninitialized = TRUE
    /\ registry = NoRegistry
    /\ threads = [t \in 1..NumThreads |-> NoThread]
    /\ reply = NoReply
    /\ machines = <<>>
    /\ owners = <<>>
    /\ bodies = [k \in 1..MaxEntities |-> Opaque]
    /\ origin = {}

Empty ==
    /\ wrappers = <<>>
    /\ disposeCalls = [h \in 1..MaxWrappers |-> 0]
    /\ returned = {}
    /\ decls = <<>>
    /\ unique = 0
    /\ modules = <<>>
    /\ structs = <<>>
    /\ bbs = <<>>
    /\ cursor = NoCursor
    /\ nextInstr = 0
    /\ loose = {}
    /\ crashed = FALSE
    /\ call = NoCall
    /\ pos = NoPos
    /\ snap = <<>>
    /\ emitted = <<>>
    /\ iter = NoIter
    /\ iterHist = [yielded |-> <<>>, list |-> <<>>, dirty |-> FALSE,
                   ended |-> FALSE]
    /\ ExtInit

\* Nothing constructed yet.
InitLife == Empty

NextLife ==
    \/ ContextNew
    \/ \E c \in 1..MaxWrappers : CreateModule(c)
    \/ \E c \in 1..MaxWrappers : CreateBuilder(c)
    \/ \E w \in 1..MaxWrappers : DropWrapper(w)
    \/ \E w \in 1..MaxWrappers : IntoInner(w)

SpecLife == InitLife /\ [][NextLife]_vars

\* A module with two functions declared (both `i32 (i32, i64)`, without
\* blocks) and a Builder just created: it has no position.
InitBuild ==
    /\ decls = <<Decl("function", <<"a">>, 0), Decl("function", <<"a", "b">>, 0)>>
    /\ wrappers = <<>>
    /\ disposeCalls = [h \in 1..MaxWrappers |-> 0]
    /\ returned = {}
    /\ unique = 0
    /\ modules = <<>>
    /\ structs = <<>>
    /\ bbs = <<>>
    /\ cursor = NoCursor
    /\ nextInstr = 0
    /\ loose = {}
    /\ crashed = FALSE
    /\ call = NoCall
    /\ pos = NoPos
    /\ snap = <<>>
    /\ emitted = <<>>
    /\ iter = NoIter
    /\ iterHist = [yielded |-> <<>>, list |-> <<>>, dirty |-> FALSE,
                   ended |-> FALSE]
    /\ ExtInit

NextBuild ==
    \/ \E f \in 1..Len(decls) : AppendBasicBlock(f, <<"a">>)
    \/ \E b \in 1..MaxBlocks : PositionAtEnd(b)
    \/ BuildAlloca
    \/ BuildIntAdd
    \/ BuildRet
    \/ BuildPhi

SpecBuild == InitBuild /\ [][NextBuild]_vars

\* A Context and one Module in it, nothing declared: every call that takes
\* a name.
InitNames == Empty

NextNames ==
    \/ \E name \in Names : CreateNamedModule(name)
    \/ \E name \in Names : CreateNamedStruct(name)
    \/ \E name \in Names : AddFunction(name)
    \/ \E name \in Names : AddGlobal(name)
    \/ \E name \in Names : GetFunction(name)
    \/ \E name \in Names : GetGlobal(name)
    \/ \E d \in 1..MaxEntities, name \in Names : SetName(d, name)
    \/ \E f \in 1..MaxEntities, name \in Names :
          Created < MaxEntities /\ AppendBasicBlock(f, name)

SpecNames == InitNames /\ [][NextNames]_vars

\* A Context and one Module in it, nothing declared: declaring, iterating
\* over the functions and writing the module out.
InitModule == Empty

NextModule ==
    \/ \E name \in ValidNames : AddFunction(name)
    \/ \E name \in ValidNames : AddGlobal(name)
    \/ FunctionsCall
    \/ IterNext
    \/ \E path \in Paths : WriteLlvmIr(path)
    \/ \E path \in Paths : WriteBitcode(path)

SpecModule == InitModule /\ [][NextModule]_vars

\* Target resolution and file emission, one call at a time.
InitTarget == Empty

NextTarget ==
    \/ \E triple \in Triples : FromTriple(triple)
    \/ \E triple \in Triples : TargetMachineNew(triple)
    \/ \E triple \in Triples, cpu \in Cpus : NewWithOptions(triple, cpu)
    \/ Native
    \/ \E o \in 1..MaxOwners, path \in Paths, ft \in FileTypes :
          EmitModuleToFile(o, path, ft)
    \/ \E o \in 1..MaxOwners : DropOwner(o)

SpecTarget == InitTarget /\ [][NextTarget]_vars

\* Threads inside their first call of Target::from_triple.
InitInit == Empty

NextInit ==
    \/ \E t \in 1..NumThreads, triple \in {<<"x">>, <<"q">>} :
          InitCheck(t, triple)
    \/ \E t \in 1..NumThreads : InitSet(t)
    \/ \E t \in 1..NumThreads : InitTargets(t)
    \/ \E t \in 1..NumThreads : InitInfos(t)
    \/ \E t \in 1..NumThreads : InitMCs(t)
    \/ \E t \in 1..NumThreads : ThreadLookup(t)

SpecInit == InitInit /\ [][NextInit]_vars

\* Target machines and data layouts: created, cloned and dropped.
InitMachine == Empty

NextMachine ==
    \/ TargetMachineNew(<<"x">>)
    \/ \E o \in 1..MaxOwners : DataLayout(o)
    \/ \E o \in 1..MaxOwners : CloneOwner(o)
    \/ \E o \in 1..MaxOwners : DropOwner(o)

SpecMachine == InitMachine /\ [][NextMachine]_vars

\* A module in which functions, globals and blocks are declared, renamed,
\* looked up and deleted, and the handles given out are used afterwards.
DeclNames == ValidNames \cup {<<>>}

InitDelete == Empty

NextDelete ==
    \/ \E name \in DeclNames : AddFunction(name)
    \/ \E name \in DeclNames : AddGlobal(name)
    \/ \E name \in ValidNames : GetFunction(name)
    \/ \E name \in ValidNames : GetGlobal(name)
    \/ \E f \in 1..MaxEntities :
          Created < MaxEntities /\ AppendBasicBlock(f, <<"a">>)
    \/ \E d \in 1..MaxEntities, name \in ValidNames : HandleName(d, name)
    \/ \E d \in 1..MaxEntities : DeleteFunction(d)
    \/ \E d \in 1..MaxEntities : DeleteGlobal(d)
    \/ \E b \in 1..MaxBlocks : BlockDelete(b)
    \/ \E b \in 1..MaxBlocks : BlockGetName(b)

SpecDelete == InitDelete /\ [][NextDelete]_vars

\* Functions are added to a module, walked by an iterator and deleted
\* during the walk.
InitTraverse == Empty

NextTraverse ==
    \/ \E name \in ValidNames : AddFunction(name)
    \/ FunctionsCall
    \/ TraverseNext
    \/ \E d \in 1..MaxEntities : TraverseDelete(d)

SpecTraverse == InitTraverse /\ [][NextTraverse]_vars

\* Types and constants of two Contexts, and the named struct types of the
\* first.
InitTypes == Empty

NextTypes ==
    \/ Created < MaxEntities /\ CreateNamedStruct(<<"a">>)
    \/ \E k \in 1..MaxEntities, elements \in TypeLists :
          StructSetBody(k, elements)
    \/ \E T \in BaseTypes, x \in Ints : ConstInt(T, x)
    \/ ValueTy
    \/ \E T \in BaseTypes, params \in TypeLists : TypeFunction(T, params)
    \/ \E c \in Contexts, T \in BaseTypes : TyArray(c, T)
    \/ \E c \in Contexts, elements \in TypeLists : TyStruct(c, elements)
    \/ \E c \in Contexts, d \in Contexts : ConstStruct(c, d)

SpecTypes == InitTypes /\ [][NextTypes]_vars

\* Integer constants of the integer types of two Contexts.
InitConst == Empty

NextConst ==
    \/ \E T \in IntTypes, x \in Ints : ConstInt(T, x)
    \/ \E T \in IntTypes, x \in SignedInts : ConstSignedInt(T, x)
    \/ ValueTy

SpecConst == InitConst /\ [][NextConst]_vars

\* A module with two functions declared and a Builder: blocks are appended,
\* the builder positioned, and remainders of the parameters built.
InitRem == InitBuild

NextRem ==
    \/ \E f \in 1..Len(decls) : AppendBasicBlock(f, <<"a">>)
    \/ \E b \in 1..MaxBlocks : PositionAtEnd(b)
    \/ BuildIntURem
    \/ BuildIntSRem

SpecRem == InitRem /\ [][NextRem]_vars

\* A module with two functions declared and a Builder: blocks are appended,
\* the builder positioned, values stored in fresh memory and loaded back.
InitStore == InitBuild

NextStore ==
    \/ \E f \in 1..Len(decls) : AppendBasicBlock(f, <<"a">>)
    \/ \E b \in 1..MaxBlocks : PositionAtEnd(b)
    \/ BuildAllocaStore
    \/ BuildMallocStore
    \/ BuildLoadFree

SpecStore == InitStore /\ [][NextStore]_vars

\* The same module: structs are initialised from lists of parameters and
\* constants (SpecAgg), and arrays of them stored (SpecArr).
InitAgg == InitBuild

NextAgg ==
    \/ \E f \in 1..Len(decls) : AppendBasicBlock(f, <<"a">>)
    \/ \E b \in 1..MaxBlocks : PositionAtEnd(b)
    \/ BuildStructInit

SpecAgg == InitAgg /\ [][NextAgg]_vars

InitArr == InitBuild

\* The same module: the builder is positioned in front of instructions.
InitCursor == InitBuild

NextCursor ==
    \/ AppendBasicBlock(1, <<"a">>)
    \/ \E b \in 1..MaxBlocks : PositionAtEnd(b)
    \/ \E v \in {Inst(i.id) : i \in AllInstrs(BState)} \cup {Param(0)} :
          PositionBefore(v)
    \/ BuildAllocaStore
    \/ BuildLoad

SpecCursor == InitCursor /\ [][NextCursor]_vars

\* The same module: blocks are ended by switches.
InitSwitch == InitBuild

NextSwitch ==
    \/ AppendBasicBlock(1, <<"a">>)
    \/ \E b \in 1..MaxBlocks : PositionAtEnd(b)
    \/ BuildAlloca
    \/ BuildSwitch

SpecSwitch == InitSwitch /\ [][NextSwitch]_vars

NextArr ==
    \/ \E f \in 1..Len(decls) : AppendBasicBlock(f, <<"a">>)
    \/ \E b \in 1..MaxBlocks : PositionAtEnd(b)
    \/ BuildArrayAllocaStore
    \/ BuildArrayMallocStore

SpecArr == InitArr /\ [][NextArr]_vars

\* The same module: a value is stored in fresh stack memory and addresses
\* are computed from the pointer.
InitGep == InitBuild

NextGep ==
    \/ \E f \in 1..Len(decls) : AppendBasicBlock(f, <<"a">>)
    \/ \E b \in 1..MaxBlocks : PositionAtEnd(b)
    \/ BuildAllocaStore
    \/ BuildGep
    \/ BuildInboundsGep

SpecGep == InitGep /\ [][NextGep]_vars

\* Contexts, the Modules, Builders, Types and BasicBlocks made from them,
\* method calls on them, and values leaving scope in any order the borrow
\* checker accepts.
InitScope == Empty

NextScope ==
    \/ ~crashed /\ ContextNew
    \/ \E c \in 1..MaxWrappers : ~crashed /\ CreateModule(c)
    \/ \E c \in 1..MaxWrappers : ~crashed /\ CreateBuilder(c)
    \/ \E c \in 1..MaxWrappers : ~crashed /\ ScopeTyI8(c)
    \/ \E m \in 1..MaxWrappers : ~crashed /\ ScopeAppendBasicBlock(m)
    \/ \E w \in 1..MaxWrappers : ~crashed /\ ScopeUse(w)
    \/ \E w \in 1..MaxWrappers : ~crashed /\ DropWrapper(w)

SpecScope == InitScope /\ [][NextScope]_vars

\* =========================================================================
\* Properties
\* =========================================================================

\* C1: a Context, Module or Builder that went out of scope without
\* into_inner had the dispose routine called for its handle exactly once,
\* and no handle ever has its dispose routine called more than once.
C1_DisposedExactlyOnce ==
    /\ \A w \in 1..Len(wrappers) :
          (wrappers[w].scope = "gone" /\ ~wrappers[w].tookInner) =>
              /\ wrappers[w].inner = wrappers[w].made
              /\ disposeCalls[wrappers[w].made] = 1
    /\ \A h \in 1..MaxWrappers : disposeCalls[h] <= 1

\* A Module was dropped and its backend module disposed by that drop.
C1_Witness ==
    \E w \in 1..Len(wrappers) :
        /\ wrappers[w].kind = "Module"
        /\ wrappers[w].scope = "gone" /\ ~wrappers[w].tookInner
        /\ disposeCalls[wrappers[w].made] = 1

\* C2: into_inner hands out the handle the wrapper was made with, and the
\* drop of the consumed wrapper calls no dispose routine for it.
C2_IntoInnerDoesNotDispose ==
    \A w \in 1..Len(wrappers) :
        wrappers[w].tookInner =>
            /\ <<w, wrappers[w].made>> \in returned
            /\ wrappers[w].scope = "gone"
            /\ disposeCalls[wrappers[w].made] = 0

\* A Builder was consumed by into_inner.
C2_Witness ==
    \E w \in 1..Len(wrappers) :
        /\ wrappers[w].kind = "Builder"
        /\ wrappers[w].tookInner
        /\ <<w, wrappers[w].made>> \in returned

\* The build_* calls of SpecBuild and the calls that take a name.
BuildOps == {"build_alloca", "build_int_add", "build_ret", "build_phi"}
NameOps ==
    {"create_module", "create_named_struct", "add_function", "add_global",
     "get_function", "get_global", "name", "append_basic_block"}
WriteOps == {"write_llvm_ir", "write_bitcode"}

\* C3: build_phi with an empty incoming list panics: it returns no handle,
\* reaches no backend routine and creates no instruction, so every block,
\* the one at the cursor included, is as it was.
C3_EmptyPhiPanics ==
    [][(call'.op = "build_phi" /\ call'.arg = <<>>) =>
          /\ call'.outcome = "panic"
          /\ call'.ret = Null
          /\ call'.backendCalls = 0
          /\ bbs' = bbs /\ loose' = loose /\ nextInstr' = nextInstr
          /\ cursor' = cursor]_vars

\* build_phi was called with an empty list on a positioned builder whose
\* block holds an instruction, and panicked.
C3_Witness ==
    /\ call.op = "build_phi" /\ call.arg = <<>> /\ call.outcome = "panic"
    /\ cursor.bb # 0
    /\ bbs[cursor.bb].instrs # <<>>

\* C4: a build_* call on a Builder that was never positioned panics and
\* reaches no backend routine.
C4_UnpositionedEmitFailsFast ==
    (pos.how = "none" /\ call.op \in BuildOps) =>
        /\ call.outcome = "panic"
        /\ call.backendCalls = 0
        /\ loose = {}

\* C5: after position_at_end(b) the block b holds the instructions it had at
\* that call, followed by the instructions emitted since, in call order,
\* each once.
C5_EmittedInCallOrder ==
    pos.how = "at_end" =>
        LET now == bbs[pos.bb].instrs
            old == snap[pos.bb]
        IN /\ Len(now) = Len(old) + Len(emitted)
           /\ SubSeq(now, 1, Len(old)) = old
           /\ \A k \in 1..Len(emitted) : now[Len(old) + k].id = emitted[k]

\* The documented example: a function with exactly one block, positioned
\* at its end, then int_add and ret of the sum: the block is [add, ret].
C5_Witness ==
    \E b \in 1..Len(bbs) :
        /\ pos = [how |-> "at_end", bb |-> b, at |-> 0]
        /\ \A c \in 1..Len(bbs) : bbs[c].fn = bbs[b].fn => c = b
        /\ snap[b] = <<>>
        /\ Len(emitted) = 2
        /\ Len(bbs[b].instrs) = 2
        /\ bbs[b].instrs[1].op = "add"
        /\ bbs[b].instrs[2].op = "ret"
        /\ bbs[b].instrs[2].args = <<Inst(bbs[b].instrs[1].id)>>

\* C6: after position_at_end(b2) every block other than b2 holds exactly the
\* instructions it had at that call.
C6_OtherBlocksUntouched ==
    pos.how = "at_end" =>
        \A b \in 1..Len(bbs) : b # pos.bb => bbs[b].instrs = snap[b]

\* The builder emitted into a block of one function, was repositioned to a
\* block of another function and emitted there.
C6_Witness ==
    /\ pos.how = "at_end"
    /\ emitted # <<>>
    /\ \E b1 \in 1..Len(bbs) :
          /\ b1 # pos.bb
          /\ bbs[b1].fn # bbs[pos.bb].fn
          /\ bbs[b1].instrs # <<>>

\* C7: get_function / get_global with a name free of NUL returns; the Value
\* returned is null exactly when the module holds no function / global of
\* that name, else it is that declaration; the backend's objects are as
\* before the call.
C7_LookupAbsentIsNull ==
    [][(call'.op \in {"get_function", "get_global"} /\ ~HasNul(call'.arg)) =>
          LET kind == IF call'.op = "get_function" THEN "function" ELSE "global"
              found == {d \in 1..Len(decls) :
                           /\ decls[d].kind = kind
                           /\ decls[d].base = call'.arg
                           /\ decls[d].suffix = 0}
          IN /\ call'.outcome = "ok"
             /\ found = {} => call'.ret = Null
             /\ found # {} => call'.ret \in {DeclV(d) : d \in found}
             /\ backVars' = backVars]_vars

\* get_function returned null for a name that a global of the module has.
C7_Witness ==
    /\ call.op = "get_function" /\ call.outcome = "ok" /\ call.ret = Null
    /\ \E d \in 1..Len(decls) :
          decls[d].kind = "global" /\ decls[d].base = call.arg

\* C8: while no function is added during the traversal, the iterator of
\* functions() has yielded a prefix of the functions in declaration order,
\* holds a next element as long as one is left, and returns None only after
\* all of them (at once when there is none).
C8_FunctionsInDeclarationOrder ==
    (iter.on /\ ~iterHist.dirty) =>
        LET F == SelectSeq([k \in 1..Len(decls) |-> DeclV(k)],
                           LAMBDA v : decls[v[2]].kind = "function")
            n == Len(iterHist.yielded)
        IN /\ n <= Len(F)
           /\ iterHist.yielded = SubSeq(F, 1, n)
           /\ iterHist.ended => n = Len(F)
           /\ n < Len(F) => iter.pointer = F[n + 1]
           /\ n = Len(F) => iter.pointer = Null

\* A traversal of a module with two functions and a global ended after
\* yielding both functions.
C8_Witness ==
    /\ iter.on /\ ~iterHist.dirty /\ iterHist.ended
    /\ Len(iterHist.yielded) = 2
    /\ \E d \in 1..Len(decls) : decls[d].kind = "global"

\* C9: a call that is given a name with an embedded NUL panics with an
\* invalid-name message before any backend routine is reached, and creates,
\* renames and looks up nothing.
C9_NulNameRejected ==
    [][(call'.op \in NameOps /\ HasNul(call'.arg)) =>
          /\ call'.outcome = "panic"
          /\ call'.msg \in {"invalid name", "invalid module name"}
          /\ call'.backendCalls = 0
          /\ backVars' = backVars]_vars

\* add_function was given a name with a NUL in a module that already holds
\* the function its truncation would name.
C9_Witness ==
    /\ call.op = "add_function" /\ HasNul(call.arg) /\ call.outcome = "panic"
    /\ \E d \in 1..Len(decls) : decls[d].base = CStr(Append(call.arg, NUL))

BackendFailed(b) ==
    /\ b.routine # "none"
    /\ b.rc = 1 \/ (b.routine = "LLVMGetTargetFromTriple" /\ b.target = 0)

\* C11: in from_triple, new, new_with_options, native and
\* emit_module_to_file, a failure reported by the backend is returned as
\* Err with the backend's message, Err is returned only then, and a call the
\* backend answered without failure returns Ok unless it panics on a string;
\* from_triple's Ok holds the backend's target; and when a target machine
\* constructor returns Err no target machine has been created.
C11_BackendFailureIsErr ==
    [][call'.op \in TargetOps =>
          /\ BackendFailed(reply') =>
                /\ call'.outcome = "err"
                /\ reply'.error # <<>>
                /\ Append(call'.msg, NUL) = reply'.error[1]
          /\ call'.outcome = "err" => BackendFailed(reply')
          /\ (reply'.routine # "none" /\ ~BackendFailed(reply')) =>
                call'.outcome \in {"ok", "panic"}
          /\ (call'.op = "from_triple" /\ reply'.routine # "none"
                /\ ~BackendFailed(reply')) =>
                /\ call'.outcome = "ok"
                /\ call'.ret = <<"target", reply'.target>>
          /\ (call'.op = "emit_module_to_file" /\ reply'.routine # "none"
                /\ ~BackendFailed(reply')) => call'.outcome = "ok"
          /\ (call'.op \in {"new", "new_with_options", "native"}
                /\ call'.outcome = "err") =>
                machines' = machines /\ owners' = owners
    ]_vars

\* TargetMachine::new was given a triple the backend does not know and
\* returned Err with the backend's message.
C11_Witness ==
    /\ call.op = "new" /\ call.arg = <<"q">>
    /\ call.outcome = "err" /\ call.msg = <<"n", "o">>
    /\ reply.routine = "LLVMGetTargetFromTriple" /\ reply.rc = 1

\* C12: the three target initializers run at most once each, and no thread
\* does its lookup before an initialization has completed.
C12_InitializedExactlyOnce ==
    /\ registry.targets <= 1 /\ registry.infos <= 1 /\ registry.mcs <= 1
    /\ \A t \in 1..NumThreads : ~threads[t].early

\* C20: no backend target machine or data layout has its dispose routine
\* called more than once.
C20_DisposedAtMostOnce ==
    \A k \in 1..Len(machines) : machines[k].disposed <= 1

\* C13: a method called on the handle of a function, global or block that
\* has been deleted is stopped by the wrapper: it panics and the backend is
\* not reached.
C13_DeletedHandleCaught ==
    [][(call'.op \in HandleOps /\ Freed(BState, call'.arg[1])) =>
          (call'.outcome = "panic" /\ call'.backendCalls = 0)]_vars

\* The declarations of the module that carry the name n.
DeclsNamed(n) ==
    {d \in 1..Len(decls) :
        decls[d].kind # "deleted" /\ decls[d].base = n /\ decls[d].suffix = 0}

MixOps == {"function", "ty_array", "ty_struct", "const_struct"}
MixedArgs(cl) ==
    LET own == IF cl.op = "function" THEN cl.arg[1].ty.ctx ELSE cl.arg[1]
        ctxOf(h) == IF cl.op = "const_struct" THEN h.value[2].ctx ELSE h.ty.ctx
    IN \E k \in 1..Len(cl.arg[2]) : ctxOf(cl.arg[2][k]) # own

\* C15: Type::function, ty_array, ty_struct and const_struct given a handle
\* of another Context do not return a handle.
C15_CrossContextRejected ==
    [][(call'.op \in MixOps /\ MixedArgs(call')) => call'.outcome # "ok"]_vars

\* C17: const_int returns a constant whose ty() is the Type it was called
\* on, pointer and context alike.
C17_ConstIntKeepsType ==
    [][call'.op = "const_int" =>
          (call'.outcome = "ok" /\ Value_ty(call'.ret) = call'.arg[1])]_vars

\* C18: struct_set_body on an opaque named struct makes its body the
\* elements given, in order; on a struct that has a body it does not return
\* normally and the body stays as it was.
C18_BodySetOnce ==
    [][call'.op = "struct_set_body" =>
          LET k == call'.arg[1].ty[2]
          IN IF bodies[k].opaque
             THEN /\ call'.outcome = "ok"
                  /\ bodies'[k] = Body(ty_vec(call'.arg[2]))
             ELSE /\ call'.outcome # "ok"
                  /\ bodies' = bodies]_vars

\* The kind of the instruction the last call returned.
ReturnedKind ==
    LET made == {i \in AllInstrs(BState) : Inst(i.id) = call.ret}
    IN IF made = {} THEN "none" ELSE (CHOOSE i \in made : TRUE).op

\* C19: the instruction build_int_urem returns is a urem and the one
\* build_int_srem returns is an srem.
C19_RemainderKinds ==
    /\ (call.op = "build_int_urem" /\ call.outcome = "ok") =>
            ReturnedKind = "urem"
    /\ (call.op = "build_int_srem" /\ call.outcome = "ok") =>
            ReturnedKind = "srem"

\* C16: a method is called on a Module, Builder, Type or BasicBlock only
\* while the Context it was created from has not been disposed, and a
\* Context is disposed only when no value created from it is still held.
C16_NothingOutlivesContext ==
    [][/\ \A w \in 1..Len(wrappers) :
            (call' # call /\ call'.op \in {UseOps[k] : k \in DOMAIN UseOps}
                /\ call'.arg = <<w>>) => ~Disposed(ContextOf(w))
       /\ \A c \in 1..Len(wrappers) :
            (wrappers[c].kind = "Context" /\ Live(c) /\ ~Live(c)') =>
                \A w \in 1..Len(wrappers) :
                    (wrappers[w].kind # "Context" /\ ContextOf(w) = c)
                        => ~Live(w)]_vars

\* The step put exactly the instructions `news`, in this order, at the
\* builder's position (in front of cursor.before, or at the end of the
\* block), left what the block held around them and left every other block
\* alone.
EmittedAtCursor(news) ==
    LET old == bbs[cursor.bb].instrs
        k == IF cursor.before = 0 THEN Len(old)
             ELSE (CHOOSE j \in 1..Len(old) : old[j].id = cursor.before) - 1
    IN /\ bbs'[cursor.bb].instrs =
              SubSeq(old, 1, k) \o news \o SubSeq(old, k + 1, Len(old))
       /\ \A b \in 1..Len(bbs) : b # cursor.bb => bbs'[b] = bbs[b]
       /\ nextInstr' = nextInstr + Len(news)
       /\ loose' = loose

C27_InboundsGepMarked ==
    /\ (call.op = "build_inbounds_gep" /\ call.outcome = "ok") =>
            ReturnedKind = "getelementptr inbounds"
    /\ (call.op = "build_gep" /\ call.outcome = "ok") =>
            ReturnedKind = "getelementptr"


\* ---------------------------------------------------------------- C21, C22
\* The position in the cursor's block where the next instruction goes, the
\* j-th instruction found there after the step, and: exactly m instructions
\* were put there, with the ids that follow, and nothing else moved.
CursorIndex ==
    LET old == bbs[cursor.bb].instrs
    IN IF cursor.before = 0 THEN Len(old)
       ELSE (CHOOSE j \in 1..Len(old) : old[j].id = cursor.before) - 1

Fresh(j) == bbs'[cursor.bb].instrs[CursorIndex + j]

OnlyFreshAtCursor(m) ==
    LET old == bbs[cursor.bb].instrs
        new == bbs'[cursor.bb].instrs
    IN /\ Len(new) = Len(old) + m
       /\ SubSeq(new, 1, CursorIndex) = SubSeq(old, 1, CursorIndex)
       /\ SubSeq(new, CursorIndex + m + 1, Len(new)) =
              SubSeq(old, CursorIndex + 1, Len(old))
       /\ \A j \in 1..m : Fresh(j).id = nextInstr + j
       /\ \A b \in 1..Len(bbs) : b # cursor.bb => bbs'[b].instrs = bbs[b].instrs
       /\ nextInstr' = nextInstr + m
       /\ loose' = loose

\* The number of constants the list starts with, and the constant aggregate
\* of type T that holds them.
LeadingConstants(elems) ==
    CHOOSE k \in 0..Len(elems) :
        /\ \A j \in 1..k : IsConstant(elems[j])
        /\ k = Len(elems) \/ ~IsConstant(elems[k + 1])

Folded(T, elems, k) ==
    IF k = 0 THEN <<"undef", T>>
    ELSE <<"agg", T, [j \in 1..k |-> <<j - 1, elems[j]>>]>>

\* A block or an instruction of the cursor's function has this name.
NameInFunction(cname) ==
    \E x \in 1..Len(bbs) :
        /\ bbs[x].fn = bbs[cursor.bb].fn
        /\ \/ bbs[x].base = cname /\ bbs[x].suffix = 0
           \/ \E q \in 1..Len(bbs[x].instrs) :
                  bbs[x].instrs[q].base = cname /\ bbs[x].instrs[q].suffix = 0

\* The instructions Fresh(1..m) insert the elements after the first k into
\* an aggregate of type T, each into the result of the one before and the
\* first into the constant of the first k; each is named prefix + its index,
\* with a number appended exactly when the function has the name already.
InsertsFrom(T, elems, k, prefix) ==
    \A j \in 1..(Len(elems) - k) :
        /\ Fresh(j).op = "insertvalue"
        /\ Fresh(j).ty = T
        /\ Fresh(j).args =
              <<IF j = 1 THEN Folded(T, elems, k) ELSE Inst(nextInstr + j - 1),
                elems[k + j], k + j - 1>>
        /\ Fresh(j).base = Format(prefix, k + j - 1)
        /\ Fresh(j).suffix = 0 <=> ~NameInFunction(Format(prefix, k + j - 1))

AggregateOf(T, elems, k) ==
    IF k = Len(elems) THEN Folded(T, elems, k)
    ELSE Inst(nextInstr + Len(elems) - k)

\* C21 (amended): with the builder positioned, build_struct_init of n
\* elements that start with k constants emits n - k insert-value
\* instructions and nothing else: the k constants are folded into a constant
\* aggregate, element i >= k is inserted at index i by an instruction named
\* insert_i (with a number appended when the function has that name), and
\* the last aggregate is returned (the constant one when k = n, undef when
\* n = 0).
C21_StructInitInserts ==
    [][(cursor.bb # 0 /\ call'.op = "build_struct_init") =>
          LET T == call'.arg[1]
              elems == call'.arg[2]
              k == LeadingConstants(elems)
          IN /\ call'.outcome = "ok"
             /\ OnlyFreshAtCursor(Len(elems) - k)
             /\ InsertsFrom(T, elems, k, "insert_")
             /\ call'.ret = AggregateOf(T, elems, k)]_vars

\* C21 as stated: n insert-value instructions, named insert_0 .. insert_n-1.
C21_StructInitEmitsAll ==
    [][(cursor.bb # 0 /\ call'.op = "build_struct_init") =>
          LET T == call'.arg[1]
              elems == call'.arg[2]
              n == Len(elems)
          IN /\ call'.outcome = "ok"
             /\ OnlyFreshAtCursor(n)
             /\ \A j \in 1..n :
                   /\ Fresh(j).op = "insertvalue"
                   /\ Fresh(j).args[2] = elems[j] /\ Fresh(j).args[3] = j - 1
                   /\ Fresh(j).base = Format("insert_", j - 1)
                   /\ Fresh(j).suffix = 0
             /\ call'.ret = IF n = 0 THEN LLVMGetUndef(T) ELSE Inst(nextInstr + n)]_vars

\* build_struct_init(constant, param 0) a second time in one function: one
\* instruction, inserting into the folded constant, its name numbered.
C21_Witness ==
    /\ call.op = "build_struct_init" /\ call.outcome = "ok"
    /\ call.arg[2] = <<IntConst(ElemType, 1), Param(0)>>
    /\ cursor.bb # 0
    /\ LET now == bbs[cursor.bb].instrs
       IN /\ Len(now) = 2
          /\ now[2].op = "insertvalue"
          /\ now[2].args[1][1] = "agg"
          /\ now[2].base = <<"insert_", "1">>
          /\ now[2].suffix > 0
          /\ call.ret = Inst(now[2].id)

C29_PhiOfIncoming ==
    [][(cursor.bb # 0 /\ call'.op = "build_phi" /\ call'.arg # <<>>) =>
          LET incoming == call'.arg
              phi == [Instr(nextInstr + 1, "phi",
                            LLVMTypeOf(BState, incoming[1][1]), <<>>)
                        EXCEPT !.incoming = incoming]
          IN /\ call'.outcome = "ok"
             /\ EmittedAtCursor(<<phi>>)
             /\ call'.ret = Inst(phi.id)]_vars

\* build_phi of two pairs whose values differ in type, after another
\* instruction of the block.
C29_Witness ==
    /\ call.op = "build_phi" /\ call.outcome = "ok" /\ Len(call.arg) = 2
    /\ cursor.bb # 0
    /\ LET now == bbs[cursor.bb].instrs
       IN /\ Len(now) = 2
          /\ now[2].op = "phi"
          /\ now[2].incoming = call.arg
          /\ now[2].ty = LLVMTypeOf(BState, call.arg[1][1])
          /\ now[2].ty # LLVMTypeOf(BState, call.arg[2][1])
          /\ call.ret = Inst(now[2].id)

\* C25: with the builder positioned, build_switch(v, cases, default) with
\* integer constants for case values emits one switch instruction on v and
\* nothing else; its default target is `default`, it was created with room
\* for Len(cases) cases, and its cases are the given (value, target) pairs
\* in the order given (none for an empty list).
C25_SwitchOfCases ==
    [][(/\ cursor.bb # 0
        /\ call'.op = "build_switch"
        /\ \A k \in 1..Len(call'.arg[2]) : call'.arg[2][k][1][1] = "const") =>
          LET v == call'.arg[1]
              cases == call'.arg[2]
              default == call'.arg[3]
              sw == [Instr(nextInstr + 1, "switch", "void",
                           <<v, default, Len(cases)>>)
                       EXCEPT !.cases = cases]
          IN /\ call'.outcome = "ok"
             /\ EmittedAtCursor(<<sw>>)
             /\ call'.ret = Unit]_vars

\* build_switch with two cases to different blocks, after another
\* instruction of the block.
C25_Witness ==
    /\ call.op = "build_switch" /\ call.outcome = "ok" /\ Len(call.arg[2]) = 2
    /\ call.arg[2][1][2] # call.arg[2][2][2]
    /\ cursor.bb # 0
    /\ LET now == bbs[cursor.bb].instrs
       IN /\ Len(now) = 2
          /\ now[1].op = "alloca"
          /\ now[2].op = "switch"
          /\ now[2].cases = call.arg[2]
          /\ now[2].args = <<call.arg[1], call.arg[3], 2>>

\* C26: after position_before(i), for as long as the builder is not
\* positioned again, the block of i holds the instructions it had in front
\* of i at that call, then the instructions emitted since, in call order,
\* each once, then i and the instructions it had after i; what was in the
\* block keeps its order.
C26_EmittedBeforeInstr ==
    pos.how = "before" =>
        LET now == bbs[pos.bb].instrs
            old == snap[pos.bb]
            n == Len(emitted)
        IN \E k \in 1..Len(old) :
              /\ old[k].id = pos.at
              /\ Len(now) = Len(old) + n
              /\ SubSeq(now, 1, k - 1) = SubSeq(old, 1, k - 1)
              /\ \A j \in 1..n : now[k - 1 + j].id = emitted[j]
              /\ SubSeq(now, k + n, Len(now)) = SubSeq(old, k, Len(old))

\* Two build calls after position_before(store) in a block [alloca, store]:
\* the block is [alloca, load, load, store].
C26_Witness ==
    /\ pos.how = "before"
    /\ Len(emitted) = 2
    /\ call.op = "build_load"
    /\ LET now == bbs[pos.bb].instrs
       IN /\ Len(now) = 4
          /\ now[1].op = "alloca"
          /\ now[2].id = emitted[1] /\ now[3].id = emitted[2]
          /\ now[2].id < now[3].id
          /\ now[4].id = pos.at /\ now[4].op = "store"

\* C28: while the only functions deleted during a traversal are ones the
\* iterator has yielded, the iterator has yielded a prefix of the functions
\* the module had when it was made, points at the next of them, which is
\* live, or at null after the last, ends only after all of them, and the
\* process has not died; and after delete_function of the function the
\* iterator points at, the iterator holds the handle of a deleted function.
C28_SuccessorFetchedBeforeYield ==
    /\ (iter.on /\ ~iterHist.dirty) =>
          LET L == iterHist.list
              n == Len(iterHist.yielded)
          IN /\ ~crashed
             /\ n <= Len(L)
             /\ iterHist.yielded = SubSeq(L, 1, n)
             /\ n < Len(L) => iter.pointer = L[n + 1] /\ ~Freed(BState, iter.pointer)
             /\ n = Len(L) => iter.pointer = Null
             /\ iterHist.ended => n = Len(L)
    /\ (/\ iter.on /\ iter.pointer # Null
        /\ call.op = "delete_function" /\ call.outcome = "ok"
        /\ call.arg = <<iter.pointer>>) => Freed(BState, iter.pointer)

\* A traversal of two functions ended after yielding both, the first of
\* which was deleted after it was yielded and before the second was.
C28_Witness ==
    /\ iter.on /\ ~iterHist.dirty /\ iterHist.ended
    /\ Len(iterHist.list) = 2
    /\ iterHist.yielded = iterHist.list
    /\ Freed(BState, iterHist.yielded[1])
    /\ ~Freed(BState, iterHist.yielded[2])
    /\ call.op = "next" /\ call.ret = <<"none", 0>>

\* The w-bit two's complement of the integer v, lowest bit first, and
\* whether v has one (v lies between -2^31 and 2^31).
SignedBits(v, w) == IF v >= 0 THEN BitsOf(v, w) ELSE Complement(BitsOf(-v - 1, w))
Representable(v, w) == w > 31 \/ (-(2 ^ (w - 1)) <= v /\ v < 2 ^ (w - 1))

\* C30: const_signed_int(v) on an integer type of width w, for v
\* representable in w bits, returns the constant of that type whose signed
\* value is v: its bits are the w-bit two's complement of v.
C30_SignedValueKept ==
    (/\ call.op = "const_signed_int"
     /\ Representable(call.arg[2], call.arg[1].ty.bits)) =>
        /\ call.outcome = "ok"
        /\ call.ret.value =
              ConstV(call.arg[1].ty, SignedBits(call.arg[2], call.arg[1].ty.bits))

====
